---- MODULE Spec2Model ----
(***************************************************************************)
(* The session tracker of the website time tracker extension: the          *)
(* background service worker's in-memory session state, its pending-time   *)
(* buffer and the flush of that buffer into the daily records of           *)
(* chrome.storage.local.                                                   *)
(*                                                                         *)
(* Handlers are async functions.  A handler runs without interruption      *)
(* until it awaits a browser API (chrome.tabs.get, chrome.tabs.query,      *)
(* chrome.storage.local.get/set); other handlers run while it is           *)
(* suspended there.  Each handler in flight is a record of procs holding   *)
(* its position (pc) and its local variables; one action of the model is   *)
(* one uninterrupted run of a handler from one suspension to the next.     *)
(* An await of an async function that returns without reaching a browser   *)
(* API only yields to the microtask queue and is not a point where another *)
(* handler can run.                                                        *)
(*                                                                         *)
(* A storage request takes effect when it is issued (the browser serves    *)
(* the requests of one extension in the order they were sent) and its      *)
(* promise settles later; the result of a tabs request is read when its    *)
(* promise settles.                                                        *)
(***************************************************************************)
EXTENDS Integers, FiniteSets, TLC, Sequences

\* ------------------------------------------------------------ constants
INACTIVITY_TIMEOUT_MS == 15000

\* days of daily records that cleanupOldData keeps
DATA_RETENTION_DAYS == 90

\* handleActivityDetected flushes when more than this has passed since the
\* last flush it started
PERSIST_EVERY_MS == 30000

SKIP_PROTOCOLS ==
  {"chrome:", "chrome-extension:", "about:", "file:", "devtools:", "edge:", "brave:"}

\* ------------------------------------------------------------ bounds
\* the clock advances in steps of a third of the inactivity timeout
TimeStep == INACTIVITY_TIMEOUT_MS \div 3

\* number of clock steps of a run
MaxTicks == 4

\* number of events of a run that counts them
MaxEvents == 4

\* handlers in flight at the same time
MaxProcs == 2

\* midnights a run can pass
MaxDays == 1

\* the records of a list given to aggregateDomains
MaxRecords == 3

\* ------------------------------------------------------------ values
\* null / undefined of a tab id or of a timestamp
NULL == -1

\* null of a domain
NullDomain == "null"

Domains == {"a.com", "b.com"}

Tabs == {1, 2}

\* the pages a tab can show
UrlA == [protocol |-> "https:", hostname |-> "a.com"]

UrlB == [protocol |-> "https:", hostname |-> "b.com"]

UrlNewTab == [protocol |-> "chrome:", hostname |-> "newtab"]

\* tab 1 stays on a.com; tab 2 is navigated between the three pages
TabPages(t) == IF t = 1 THEN {UrlA} ELSE {UrlA, UrlB, UrlNewTab}

Procs == 1..MaxProcs

ZeroMap == [d \in Domains |-> 0]

\* the calendar day a run begins on
Today == 1

\* the days of a run: the keys of the daily records that flushes write
DayKeys == Today..(Today + MaxDays)

VARIABLES
  state,       \* the service worker's in-memory state object
  daily,       \* chrome.storage.local: day key -> domain -> milliseconds
  procs,       \* the handlers in flight
  now,         \* Date.now()
  browserTab,  \* the tab that is active in the browser
  tabUrl,      \* the page each tab shows
  added,       \* history: per domain, every amount addPendingTime has added
  events,      \* history: the events taken so far, in the runs that count them
  run,         \* history: the run of activity signals in progress
  row,         \* history: the flush ticks taken in a row
  retry,       \* history: "rejected" once the store rejected a flush, "retried"
               \* once a later flush was accepted
  mode,        \* what a run records, and whether its handlers overlap
  today,       \* the calendar day of the clock
  hist,        \* chrome.storage.local: the daily records of earlier days
  limits,      \* chrome.storage.local: the value of the limits key
  other,       \* chrome.storage.local: the keys that are neither
  reply,       \* the last response sent to a request of the popup or dashboard
  agg,         \* a list of daily records and what aggregateDomains made of it
  blurred,     \* history: the window has lost focus, and no window has gained
               \* it and no tab has been activated since
  lost         \* history: per domain, what was added to the pending buffer and
               \* dropped, unwritten, when the process was terminated

vars ==
  <<state, daily, procs, now, browserTab, tabUrl, added, events, run, row, retry,
    mode, agg, blurred, lost, today, hist, limits, other, reply>>

\* the calendar day and the store outside the records of the run's days
rest == <<today, hist, limits, other, reply>>

\* ------------------------------------------------------------ utils.js
extractDomain(url) == url.hostname

shouldTrackUrl(url) == url.protocol \notin SKIP_PROTOCOLS

getTodayKey == today

\* JavaScript truthiness of a timestamp field: null and 0 are falsy
Truthy(x) == x # NULL /\ x # 0

\* JavaScript arithmetic reads null as 0
Num(x) == IF x = NULL THEN 0 ELSE x

\* ------------------------------------------------------------ the limits table
\* The limits key holds, per domain, nothing, a bare number (the format of
\* earlier versions) or an object {limit, period}.
Periods == {"day", "week", "month"}

NoLimit == [form |-> "none", limit |-> 0, period |-> "none"]

LegacyLimit(n) == [form |-> "number", limit |-> n, period |-> "none"]

LimitConfig(n, p) == [form |-> "object", limit |-> n, period |-> p]

NoLimits == [d \in Domains |-> NoLimit]

\* ------------------------------------------------------------ handlers' locals
IdleProc ==
  [pc |-> "idle", kind |-> "none", ctx |-> "none", tabId |-> NULL,
   domain |-> NullDomain, now |-> NULL, key |-> NULL, data |-> ZeroMap,
   ok |-> TRUE, via |-> "none", behind |-> "none", total |-> 0, range |-> 0,
   table |-> NoLimits, entry |-> NoLimit]

AllIdle == \A i \in Procs : procs[i].pc = "idle"

\* the runs that count their events, to take at most MaxEvents
Counted == mode \in {"full", "runs", "days", "live", "focus", "pace", "restart"}

\* an event is taken when handlers may overlap, or when none is in flight
CanAccept ==
  /\ mode \in {"full", "live"} \/ AllIdle
  /\ Counted => events < MaxEvents

FreeSlots(ps) == {i \in Procs : ps[i].pc = "idle"}

FirstFree(ps) == CHOOSE i \in FreeSlots(ps) : \A j \in FreeSlots(ps) : i <= j

\* the handlers of ps in the lowest slots, in their order (a slot is only a
\* name for the handler in it)
Busy(ps, i) == Cardinality({j \in Procs : j <= i /\ ps[j].pc # "idle"})

Compact(ps) ==
  [i \in Procs |->
     IF \E j \in Procs : ps[j].pc # "idle" /\ Busy(ps, j) = i
     THEN ps[CHOOSE j \in Procs : ps[j].pc # "idle" /\ Busy(ps, j) = i]
     ELSE IdleProc]

\* ps with the handler p added, when p is one (p = IdleProc adds nothing)
Spawn(ps, p) ==
  Compact(IF p = IdleProc THEN ps ELSE [ps EXCEPT ![FirstFree(ps)] = p])

CanSpawn(ps, p) == p = IdleProc \/ FreeSlots(ps) # {}

\* ------------------------------------------------------------ state machine
InitState ==
  [activeTabId |-> NULL, activeDomain |-> NullDomain, sessionStartTime |-> NULL,
   lastActivityTime |-> NULL, isTracking |-> FALSE, pendingTime |-> ZeroMap,
   lastPersistTime |-> NULL]

addPendingTime(st, domain, milliseconds) ==
  IF domain = NullDomain \/ milliseconds <= 0
  THEN st
  ELSE [st EXCEPT !.pendingTime[domain] = @ + milliseconds]

\* RollForward without line 348: the session is credited and not restarted
RollForward_KeepsStart(st, t) ==
  IF st.isTracking /\ Truthy(st.sessionStartTime) /\ st.activeDomain # NullDomain
  THEN addPendingTime(st, st.activeDomain, t - Num(st.sessionStartTime))
  ELSE st

\* RollForward with the session credited from its last activity
RollForward_FromLastActivity(st, t) ==
  IF st.isTracking /\ Truthy(st.sessionStartTime) /\ st.activeDomain # NullDomain
  THEN [addPendingTime(st, st.activeDomain, t - Num(st.lastActivityTime))
          EXCEPT !.sessionStartTime = t]
  ELSE st

\* RollForward counting the flush as activity
RollForward_TouchesActivity(st, t) ==
  IF st.isTracking /\ Truthy(st.sessionStartTime) /\ st.activeDomain # NullDomain
  THEN [addPendingTime(st, st.activeDomain, t - Num(st.sessionStartTime))
          EXCEPT !.sessionStartTime = t, !.lastActivityTime = t]
  ELSE st

\* persistPendingTime, its first step: the session in progress is credited
\* up to t and restarted at t
RollForward(st, t) ==
  IF st.isTracking /\ Truthy(st.sessionStartTime) /\ st.activeDomain # NullDomain
  THEN [addPendingTime(st, st.activeDomain, t - Num(st.sessionStartTime))
          EXCEPT !.sessionStartTime = t]
  ELSE st

PendingEmpty(st) == \A d \in Domains : st.pendingTime[d] = 0

\* persistPendingTime up to its await of getDailyData: the handler p is
\* suspended with today's record as the store holds it
IssueGet(p) ==
  [p EXCEPT !.pc = "p_get", !.key = getTodayKey, !.data = daily[getTodayKey]]

ResetSession(st) ==
  [st EXCEPT !.isTracking = FALSE, !.sessionStartTime = NULL,
             !.lastActivityTime = NULL]

FinalizeGuard(st) ==
  st.isTracking /\ Truthy(st.sessionStartTime) /\ st.activeDomain # NullDomain

FinalizeElapsed(st, t) ==
  IF Truthy(st.lastActivityTime)
  THEN IF t - st.lastActivityTime >= INACTIVITY_TIMEOUT_MS
       THEN st.lastActivityTime - st.sessionStartTime
       ELSE t - st.sessionStartTime
  ELSE t - st.sessionStartTime

\* finalizeCurrentSession awaits persistPendingTime, which awaits the store
FinalizeSuspends(st, t) ==
  /\ FinalizeGuard(st)
  /\ FinalizeElapsed(st, t) > 0
  /\ ~PendingEmpty(RollForward(addPendingTime(st, st.activeDomain, FinalizeElapsed(st, t)), t))

\* finalizeCurrentSession up to its suspension, or to its end when it does
\* not suspend
FinalizeState(st, t) ==
  IF ~FinalizeGuard(st)
  THEN st
  ELSE IF FinalizeElapsed(st, t) > 0
       THEN LET st1 == RollForward(addPendingTime(st, st.activeDomain, FinalizeElapsed(st, t)), t)
            IN  IF PendingEmpty(st1) THEN ResetSession(st1) ELSE st1
       ELSE ResetSession(st)

\* checkInactivityTimeout crediting the session up to the sweep
checkInactivityTimeout_CreditsToNow(st, t) ==
  IF ~st.isTracking \/ ~Truthy(st.lastActivityTime)
  THEN st
  ELSE IF t - st.lastActivityTime >= INACTIVITY_TIMEOUT_MS
       THEN ResetSession(addPendingTime(st, st.activeDomain,
                                        t - Num(st.sessionStartTime)))
       ELSE st

checkInactivityTimeout(st, t) ==
  IF ~st.isTracking \/ ~Truthy(st.lastActivityTime)
  THEN st
  ELSE IF t - st.lastActivityTime >= INACTIVITY_TIMEOUT_MS
       THEN ResetSession(
              IF st.lastActivityTime - Num(st.sessionStartTime) > 0
              THEN addPendingTime(st, st.activeDomain,
                                  st.lastActivityTime - Num(st.sessionStartTime))
              ELSE st)
       ELSE st

\* ------------------------------------------------------------ handleActivityDetected
\* A run of a handler ends with the state it leaves (st), the handler itself
\* where it is suspended (p, IdleProc when it has ended) and the flush it
\* started without awaiting it (bg, IdleProc when there is none).
Ran(st, p, bg) == [st |-> st, p |-> p, bg |-> bg]

\* ActStartSession flushing only when the time of an earlier flush is known
ActStartSession_NoFirstFlush(st, p, t) ==
  LET st1 == IF ~st.isTracking
             THEN [st EXCEPT !.isTracking = TRUE, !.sessionStartTime = t]
             ELSE st
      st2 == [st1 EXCEPT !.lastActivityTime = t]
      flush == st2.lastPersistTime # NULL /\ t - st2.lastPersistTime > PERSIST_EVERY_MS
      st3 == IF flush
             THEN RollForward([st2 EXCEPT !.lastPersistTime = t], now)
             ELSE st2
      status == [IdleProc EXCEPT !.pc = "a_status", !.kind = "act",
                                 !.tabId = p.tabId, !.domain = p.domain,
                                 !.via = "active"]
  IN  Ran(st3, status,
          IF flush /\ ~PendingEmpty(st3)
          THEN IssueGet([IdleProc EXCEPT !.kind = "bg", !.ctx = "top"])
          ELSE IdleProc)

\* lines 248-264, with t the handler's local `now`: the session starts or
\* goes on, and a flush is started in the background when none was started
\* for PERSIST_EVERY_MS; the handler then awaits getDomainStatus
ActStartSession(st, p, t) ==
  LET st1 == IF ~st.isTracking
             THEN [st EXCEPT !.isTracking = TRUE, !.sessionStartTime = t]
             ELSE st
      st2 == [st1 EXCEPT !.lastActivityTime = t]
      flush == st2.lastPersistTime = NULL \/ t - st2.lastPersistTime > PERSIST_EVERY_MS
      st3 == IF flush
             THEN RollForward([st2 EXCEPT !.lastPersistTime = t], now)
             ELSE st2
      status == [IdleProc EXCEPT !.pc = "a_status", !.kind = "act",
                                 !.tabId = p.tabId, !.domain = p.domain,
                                 !.via = "active"]
  IN  Ran(st3, status,
          IF flush /\ ~PendingEmpty(st3)
          THEN IssueGet([IdleProc EXCEPT !.kind = "bg", !.ctx = "top"])
          ELSE IdleProc)

\* ActFromNow with the interrupted session credited up to now, the idle gap
\* included
ActFromNow_CreditsToNow(st, p) ==
  LET t == now
      activeTime == t - Num(st.sessionStartTime)
  IN  IF st.isTracking /\ Truthy(st.lastActivityTime)
         /\ t - st.lastActivityTime >= INACTIVITY_TIMEOUT_MS
      THEN IF activeTime > 0 /\ st.activeDomain # NullDomain
           THEN LET st1 == RollForward(addPendingTime(st, st.activeDomain, activeTime), now)
                IN  IF PendingEmpty(st1)
                    THEN ActStartSession([st1 EXCEPT !.sessionStartTime = t], p, t)
                    ELSE Ran(st1, IssueGet([p EXCEPT !.ctx = "inl", !.now = t]), IdleProc)
           ELSE ActStartSession([st EXCEPT !.sessionStartTime = t], p, t)
      ELSE ActStartSession(st, p, t)

\* lines 228-246: the inline inactivity check
ActFromNow(st, p) ==
  LET t == now
      activeTime == Num(st.lastActivityTime) - Num(st.sessionStartTime)
  IN  IF st.isTracking /\ Truthy(st.lastActivityTime)
         /\ t - st.lastActivityTime >= INACTIVITY_TIMEOUT_MS
      THEN IF activeTime > 0 /\ st.activeDomain # NullDomain
           THEN LET st1 == RollForward(addPendingTime(st, st.activeDomain, activeTime), now)
                IN  IF PendingEmpty(st1)
                    THEN ActStartSession([st1 EXCEPT !.sessionStartTime = t], p, t)
                    ELSE Ran(st1, IssueGet([p EXCEPT !.ctx = "inl", !.now = t]), IdleProc)
           ELSE ActStartSession([st EXCEPT !.sessionStartTime = t], p, t)
      ELSE ActStartSession(st, p, t)

\* lines 221-226: the signal's domain is not the tracked one
ActFromDomainCheck(st, p) ==
  IF p.domain # st.activeDomain
  THEN IF FinalizeSuspends(st, now)
       THEN Ran(FinalizeState(st, now), IssueGet([p EXCEPT !.ctx = "fin"]), IdleProc)
       ELSE ActFromNow([FinalizeState(st, now) EXCEPT !.activeDomain = p.domain,
                                                      !.isTracking = FALSE], p)
  ELSE ActFromNow(st, p)

\* lines 203-219, up to the await of chrome.tabs.query
ActBegin(st, p) ==
  IF st.activeTabId = NULL \/ p.tabId # st.activeTabId
  THEN Ran(st, [p EXCEPT !.pc = "a_query"], IdleProc)
  ELSE ActFromDomainCheck(st, p)

\* ActAfterQuery without the test of line 206: any tab the query answers
\* for is taken for the active one
ActAfterQuery_Trusting(st, p, ok) ==
  IF ok
  THEN ActFromDomainCheck([st EXCEPT !.activeTabId = p.tabId,
                                     !.activeDomain = p.domain], p)
  ELSE Ran(st, [IdleProc EXCEPT !.pc = "a_status", !.kind = "act",
                                !.tabId = p.tabId, !.domain = p.domain,
                                !.via = "inactive"], IdleProc)

\* lines 206-218, chrome.tabs.query has settled: ok is FALSE when it rejected
ActAfterQuery(st, p, ok) ==
  IF ok /\ browserTab = p.tabId
  THEN ActFromDomainCheck([st EXCEPT !.activeTabId = p.tabId,
                                     !.activeDomain = p.domain], p)
  ELSE Ran(st, [IdleProc EXCEPT !.pc = "a_status", !.kind = "act",
                                !.tabId = p.tabId, !.domain = p.domain,
                                !.via = "inactive"], IdleProc)

\* ------------------------------------------------------------ handleTabChange
\* lines 171-176: finalizeCurrentSession, then the await of chrome.tabs.get
TabChangeBegin(st, p) ==
  IF FinalizeSuspends(st, now)
  THEN Ran(FinalizeState(st, now), IssueGet([p EXCEPT !.ctx = "fin"]), IdleProc)
  ELSE Ran(FinalizeState(st, now), [p EXCEPT !.pc = "t_get"], IdleProc)

\* lines 176-194, chrome.tabs.get has settled: ok is FALSE when it rejected
TabChangeAfterGet(st, p, ok) ==
  IF ~ok
  THEN st
  ELSE IF ~shouldTrackUrl(tabUrl[p.tabId])
       THEN [st EXCEPT !.activeTabId = p.tabId, !.activeDomain = NullDomain]
       ELSE [st EXCEPT !.activeTabId = p.tabId,
                       !.activeDomain = extractDomain(tabUrl[p.tabId]),
                       !.sessionStartTime = NULL,
                       !.lastActivityTime = NULL,
                       !.isTracking = FALSE]

\* ------------------------------------------------------------ persistPendingTime
\* MergePending with a pending amount written in place of the record's entry
MergePending_Overwrites(todayData, pendingTime) ==
  [d \in Domains |-> IF pendingTime[d] > 0 THEN pendingTime[d] ELSE todayData[d]]

\* lines 357-361, getDailyData has settled: the pending amounts are added to
\* the record that was read, and the sum is written
MergePending(todayData, pendingTime) ==
  [d \in Domains |-> todayData[d] + pendingTime[d]]

\* ClearPending without line 364
ClearPending_Keeps(st) == st

\* line 364
ClearPending(st) == [st EXCEPT !.pendingTime = ZeroMap]

\* PersistRejected with line 364 in a finally block: the buffer is cleared
\* whether the store accepted or not
PersistRejected_Clears(st) == ClearPending(st)

\* lines 355 and 361: the store rejects, persistPendingTime throws before
\* line 364 and the state is as it was
PersistRejected(st) == st

\* persistPendingTime has returned to the handler p that awaited it
AfterPersist(st, p) ==
  CASE p.ctx = "top" -> Ran(st, IdleProc, IdleProc)
    [] p.ctx = "fin" /\ p.kind = "tab" ->
         Ran(ResetSession(st), [p EXCEPT !.pc = "t_get", !.ctx = "none",
                                         !.key = NULL, !.ok = TRUE], IdleProc)
    [] p.ctx = "fin" /\ p.kind = "blur" -> Ran(ResetSession(st), IdleProc, IdleProc)
    [] p.ctx = "fin" /\ p.kind = "act" ->
         ActFromNow([ResetSession(st) EXCEPT !.activeDomain = p.domain,
                                             !.isTracking = FALSE],
                    [p EXCEPT !.ctx = "none", !.key = NULL, !.ok = TRUE])
    [] p.ctx = "inl" ->
         ActStartSession([st EXCEPT !.sessionStartTime = p.now], p, p.now)

\* history: what a run added to the pending buffer, from the buffer as it was
\* (after the clearing, when the run began with one) to the buffer it left
AddedBy(from, to) ==
  [d \in Domains |-> added[d] + (to.pendingTime[d] - from.pendingTime[d])]

\* ------------------------------------------------------------ storage.js
\* getLimits without the migration of lines 83-89
getLimits_AsStored(stored) == stored

\* getLimits: a bare number is read as a daily limit, anything else as it is
getLimits(stored) ==
  [d \in Domains |->
     IF stored[d].form = "number" THEN LimitConfig(stored[d].limit, "day")
     ELSE stored[d]]

\* setLimit writing a table with the one entry only
setLimit_OnlyTheEntry(stored, domain, milliseconds, period) ==
  [NoLimits EXCEPT ![domain] = LimitConfig(milliseconds, period)]

\* setLimit: the table it writes is the one getLimits returned, with the entry
setLimit(stored, domain, milliseconds, period) ==
  [getLimits(stored) EXCEPT ![domain] = LimitConfig(milliseconds, period)]

\* removeLimit
removeLimit(stored, domain) == [getLimits(stored) EXCEPT ![domain] = NoLimit]

\* the daily records of earlier days, by their age in days when the run
\* begins; the keys of the store that are neither a daily record nor the limits
HistAges == {1, 6, 7, 29, 30, 89, 90, 91}

HistDays == {Today - a : a \in HistAges}

OtherKeys == {"meta"}

NoRecord == [present |-> FALSE, data |-> ZeroMap]

\* the record the day k of HistDays begins with: an amount for a.com that no
\* sum of the others equals
HistAmount(k) == 100000 * (2 ^ Cardinality({j \in HistDays : j < k}))

HistRecord(k) == [present |-> TRUE, data |-> [ZeroMap EXCEPT !["a.com"] = HistAmount(k)]]

\* getDailyData(key): result[key] || {}
getDailyData(k) ==
  IF k \in DayKeys THEN daily[k]
  ELSE IF k \in HistDays /\ hist[k].present THEN hist[k].data
  ELSE ZeroMap

\* aggregateDomains(Object.values(getTimeRange(startDate, endDate))) for one
\* domain: the records of the days from lo to hi, added up
RECURSIVE RangeTotal(_, _, _)
RangeTotal(domain, lo, hi) ==
  IF lo > hi THEN 0
  ELSE getDailyData(lo)[domain] + RangeTotal(domain, lo + 1, hi)

\* A daily record as aggregateDomains takes it: a mapping from the domains
\* it has an entry for.  {} is the mapping with no entry.
EmptyMap == [d \in {} |-> 0]

\* the callback of reduce with every entry overwriting the accumulator's
AddEntries_Overwrites(acc, dayData) ==
  [d \in DOMAIN acc \cup DOMAIN dayData |->
     IF d \in DOMAIN dayData THEN dayData[d] ELSE acc[d]]

\* lines 153-158, the callback of reduce: every entry of dayData is added to
\* the accumulator's, which counts as 0 when it has none
AddEntries(acc, dayData) ==
  [d \in DOMAIN acc \cup DOMAIN dayData |->
     (IF d \in DOMAIN acc THEN acc[d] ELSE 0)
       + (IF d \in DOMAIN dayData THEN dayData[d] ELSE 0)]

\* aggregateDomains(dataArray): reduce from the left, starting from {}
RECURSIVE aggregateDomains(_)
aggregateDomains(dataArray) ==
  IF dataArray = <<>> THEN EmptyMap
  ELSE AddEntries(aggregateDomains(SubSeq(dataArray, 1, Len(dataArray) - 1)),
                  dataArray[Len(dataArray)])

NoAgg == [list |-> <<>>, out |-> EmptyMap, how |-> "none"]

\* new Date('YYYY-MM-DD') of the key of day k is midnight UTC of that day,
\* which is utcOffset hours after (before, when negative) local midnight;
\* times are in hours of local time
KeyDate(k, utcOffset) == k * 24 + utcOffset

\* cutoffDate: the present moment, hour o'clock of day t, DATA_RETENTION_DAYS
\* calendar days earlier
CutoffDate(t, hour) == (t - DATA_RETENTION_DAYS) * 24 + hour

\* the filter of cleanupOldData for the daily key of day k
Expired(k, t, hour, utcOffset) == KeyDate(k, utcOffset) < CutoffDate(t, hour)

\* ------------------------------------------------------------ status
\* the time of the session in progress, when it is domain's
SessionTime(st, domain, t) ==
  IF st.isTracking /\ st.activeDomain = domain /\ Truthy(st.sessionStartTime)
  THEN t - st.sessionStartTime
  ELSE 0

\* PeriodStart with the week and the month counted back from yesterday
PeriodStart_FromYesterday(period, t) ==
  CASE period = "day" -> t
    [] period = "week" -> t - 7
    [] period = "month" -> t - 30
    [] OTHER -> t

\* getTimeForPeriod, from the first day of the period's range
PeriodStart(period, t) ==
  CASE period = "day" -> t
    [] period = "week" -> t - 6
    [] period = "month" -> t - 29
    [] OTHER -> t

\* getTimeForPeriod after its await of getTimeRange, which returned rangeTime
\* for the domain
TimeForPeriod(st, domain, rangeTime, t) ==
  rangeTime + st.pendingTime[domain] + SessionTime(st, domain, t)

NoReply ==
  [type |-> "none", success |-> FALSE, error |-> FALSE, hasLimit |-> FALSE,
   limit |-> 0, period |-> "none", totalTime |-> 0, periodTime |-> 0,
   limitExceeded |-> FALSE, exceededBy |-> 0, remainingTime |-> 0,
   domain |-> NullDomain, data |-> ZeroMap, limits |-> NoLimits,
   dailyData |-> << >>]

\* DomainStatus with the limit exceeded as soon as it is reached
DomainStatus_AtLeast(domain, limitConfig, todayTime, periodTime) ==
  IF limitConfig.form = "none"
  THEN [NoReply EXCEPT !.type = "status", !.totalTime = todayTime, !.domain = domain]
  ELSE [NoReply EXCEPT
          !.type = "status",
          !.hasLimit = TRUE,
          !.limit = limitConfig.limit,
          !.period = limitConfig.period,
          !.totalTime = todayTime,
          !.periodTime = periodTime,
          !.limitExceeded = periodTime >= limitConfig.limit,
          !.exceededBy = IF periodTime >= limitConfig.limit
                         THEN periodTime - limitConfig.limit ELSE 0,
          !.remainingTime = IF limitConfig.limit - periodTime > 0
                            THEN limitConfig.limit - periodTime ELSE 0,
          !.domain = domain]

\* getDomainStatus, lines 417-449: todayTime and, for a domain with a limit,
\* periodTime have been computed
DomainStatus(domain, limitConfig, todayTime, periodTime) ==
  IF limitConfig.form = "none"
  THEN [NoReply EXCEPT !.type = "status", !.totalTime = todayTime, !.domain = domain]
  ELSE [NoReply EXCEPT
          !.type = "status",
          !.hasLimit = TRUE,
          !.limit = limitConfig.limit,
          !.period = limitConfig.period,
          !.totalTime = todayTime,
          !.periodTime = periodTime,
          !.limitExceeded = periodTime > limitConfig.limit,
          !.exceededBy = IF periodTime > limitConfig.limit
                         THEN periodTime - limitConfig.limit ELSE 0,
          !.remainingTime = IF limitConfig.limit - periodTime > 0
                            THEN limitConfig.limit - periodTime ELSE 0,
          !.domain = domain]

\* getDomainStatus with nothing else running while it awaits
getDomainStatus(st, domain, t) ==
  LET limitConfig == getLimits(limits)[domain]
      todayTime == TimeForPeriod(st, domain, getDailyData(getTodayKey)[domain], t)
      periodTime ==
        TimeForPeriod(st, domain,
                      RangeTotal(domain, PeriodStart(limitConfig.period, today), today), t)
  IN  DomainStatus(domain, limitConfig, todayTime, periodTime)

\* ------------------------------------------------------------ history
\* The history variables record what has happened, for the claims that speak
\* of it; no handler reads them.  A run records only the history its mode
\* names: added in every mode, retry when mode is "serial", run when mode is
\* "runs", row when mode is "rows", blurred when mode is "focus", lost when
\* mode is "restart".  In every mode but "full" and "live" an event is taken
\* only when no handler is in flight; the modes "full", "runs", "days",
\* "live", "focus", "pace" and "restart" count their events.

\* run: the unbroken run of activity signals in progress: signals of one
\* domain, processed for the active tab, each less than INACTIVITY_TIMEOUT_MS
\* after the one before, with no tab or window change between them.
\*   last: when its last signal was processed
\*   due: what the domain had been credited when the run began, less the
\*        time of the run's first signal; due + last is that credit plus the
\*        length of the run
\*   changed: a tab or window change was taken, and its listener ran, no
\*        later than last
\*   idle: an alarm or a tab or window change was taken later than last
\* A run that is both changed and idle is of no claim's case and is dropped.
NoRun ==
  [dom |-> NullDomain, last |-> NULL, due |-> 0, changed |-> FALSE, idle |-> FALSE]

\* an activity signal of domain d is processed at time t
RunSignal(r, d, t, credited) ==
  IF r # NoRun /\ r.dom = d /\ ~r.changed /\ t - r.last < INACTIVITY_TIMEOUT_MS
  THEN [r EXCEPT !.last = t, !.idle = FALSE]
  ELSE [dom |-> d, last |-> t, due |-> credited - t, changed |-> FALSE, idle |-> FALSE]

RunAlarm(r, t) ==
  IF r = NoRun \/ (r.changed /\ t > r.last) THEN NoRun
  ELSE [r EXCEPT !.idle = @ \/ t > r.last]

RunChange(r, t) ==
  IF r = NoRun \/ r.idle \/ t > r.last THEN NoRun ELSE [r EXCEPT !.changed = TRUE]

\* row: the flush ticks taken in a row, nothing but the clock's steps between
\* the end of one and the next.
\*   n: how many (2 stands for two or more); done: the last one has ended,
\*   its write accepted; at: when the last one began
NoRow == [n |-> 0, done |-> FALSE, at |-> NULL]

RowTick(r, t, ended) ==
  [n |-> IF r.n >= 1 /\ r.done THEN 2 ELSE 1, done |-> ended, at |-> t]

\* ------------------------------------------------------------ initial state
\* The service worker has just loaded: initializeActiveTab has sent its
\* chrome.tabs.query and nothing else has run.
InitProcs ==
  [i \in Procs |-> IF i = 1 THEN [IdleProc EXCEPT !.pc = "f_query", !.kind = "tab"]
                   ELSE IdleProc]

InitCommon ==
  /\ state = InitState
  /\ daily = [k \in DayKeys |-> ZeroMap]
  /\ procs = InitProcs
  /\ now = TimeStep
  /\ browserTab = 1
  /\ tabUrl = [t \in Tabs |-> IF t = 1 THEN UrlA ELSE UrlB]
  /\ added = ZeroMap
  /\ events = 0
  /\ run = NoRun
  /\ row = NoRow
  /\ retry = "none"
  /\ today = Today
  /\ hist = [k \in HistDays |-> NoRecord]
  /\ limits = NoLimits
  /\ other = OtherKeys
  /\ reply = NoReply
  /\ agg = NoAgg
  /\ blurred = FALSE
  /\ lost = ZeroMap

Init == InitCommon /\ mode = "full"

InitSerial == InitCommon /\ mode = "serial"

InitRuns == InitCommon /\ mode = "runs"

InitRows == InitCommon /\ mode = "rows"

MaxTime == TimeStep * (1 + MaxTicks)

\* ------------------------------------------------------------ actions
env == <<now, browserTab, tabUrl, mode, agg, blurred, lost>>

\* the handler in slot i has run from base to r
Apply(i, base, r) ==
  /\ CanSpawn([procs EXCEPT ![i] = r.p], r.bg)
  /\ state' = r.st
  /\ procs' = Spawn([procs EXCEPT ![i] = r.p], r.bg)
  /\ added' = AddedBy(base, r.st)
  /\ UNCHANGED <<events, rest>>

\* an event starts a handler, which suspends (r.p) or runs to its end
Accept(r) ==
  /\ CanAccept
  /\ CanSpawn(procs, r.p)
  /\ state' = r.st
  /\ procs' = Spawn(procs, r.p)
  /\ added' = AddedBy(state, r.st)
  /\ events' = IF Counted THEN events + 1 ELSE events
  /\ UNCHANGED rest

\* the history of a tab or window change
ChangeTaken ==
  /\ run' = IF mode = "runs" THEN RunChange(run, now) ELSE run
  /\ row' = NoRow
  /\ UNCHANGED retry

Tick ==
  /\ now < MaxTime
  /\ now' = now + TimeStep
  /\ UNCHANGED <<state, daily, procs, browserTab, tabUrl, added, events, mode, agg, blurred, lost,
                 run, row, retry, rest>>

\* the user activates tab t: chrome.tabs.onActivated is on its way
TabActivated(t) ==
  /\ t # browserTab
  /\ browserTab' = t
  /\ Accept(Ran(state, [IdleProc EXCEPT !.pc = "t_start", !.kind = "tab",
                                        !.tabId = t], IdleProc))
  /\ ChangeTaken
  /\ blurred' = FALSE
  /\ UNCHANGED <<daily, now, tabUrl, mode, agg, lost>>

\* tab t has loaded the page u: chrome.tabs.onUpdated (status complete) is on
\* its way
TabUpdated(t, u) ==
  /\ u # tabUrl[t]
  /\ tabUrl' = [tabUrl EXCEPT ![t] = u]
  /\ Accept(Ran(state, [IdleProc EXCEPT !.pc = "u_start", !.kind = "tab",
                                        !.tabId = t], IdleProc))
  /\ ChangeTaken
  /\ UNCHANGED <<daily, now, browserTab, mode, agg, blurred, lost>>

\* the content script of the active tab reports activity: its message is on
\* its way
ActivitySignal ==
  /\ shouldTrackUrl(tabUrl[browserTab])
  /\ Accept(Ran(state, [IdleProc EXCEPT !.pc = "a_start", !.kind = "act",
                                        !.tabId = browserTab,
                                        !.domain = extractDomain(tabUrl[browserTab])],
                IdleProc))
  /\ row' = NoRow
  /\ UNCHANGED <<run, retry>>
  /\ UNCHANGED <<daily, env>>

\* chrome.windows.onFocusChanged(WINDOW_ID_NONE): finalizeCurrentSession
WindowFocusLost ==
  /\ Accept(Ran(FinalizeState(state, now),
                IF FinalizeSuspends(state, now)
                THEN IssueGet([IdleProc EXCEPT !.kind = "blur", !.ctx = "fin"])
                ELSE IdleProc,
                IdleProc))
  /\ ChangeTaken
  /\ blurred' = (mode = "focus")
  /\ UNCHANGED <<daily, now, browserTab, tabUrl, mode, agg, lost>>

\* chrome.windows.onFocusChanged(windowId): chrome.tabs.query is sent
WindowFocusGained ==
  /\ Accept(Ran(state, [IdleProc EXCEPT !.pc = "f_query", !.kind = "tab"], IdleProc))
  /\ ChangeTaken
  /\ blurred' = FALSE
  /\ UNCHANGED <<daily, now, browserTab, tabUrl, mode, agg, lost>>

\* the persist-data alarm: persistPendingTime
PersistAlarm ==
  /\ Accept(LET st1 == RollForward(state, now)
            IN  Ran(st1,
                    IF PendingEmpty(st1) THEN IdleProc
                    ELSE IssueGet([IdleProc EXCEPT !.kind = "flush", !.ctx = "top"]),
                    IdleProc))
  /\ run' = IF mode = "runs" THEN RunAlarm(run, now) ELSE run
  /\ row' = IF mode = "rows"
            THEN RowTick(row, now, PendingEmpty(RollForward(state, now)))
            ELSE row
  /\ UNCHANGED retry
  /\ UNCHANGED <<daily, env>>

\* the inactivity-check alarm: checkInactivityTimeout
InactivityAlarm ==
  /\ Accept(Ran(checkInactivityTimeout(state, now), IdleProc, IdleProc))
  /\ run' = IF mode = "runs" THEN RunAlarm(run, now) ELSE run
  /\ row' = NoRow
  /\ UNCHANGED retry
  /\ UNCHANGED <<daily, env>>

\* the listener of onActivated or onUpdated runs; onUpdated's does nothing
\* for a tab that is not the tracked one
TabChangeStart(i) ==
  /\ procs[i].pc \in {"t_start", "u_start"}
  /\ IF procs[i].pc = "u_start" /\ procs[i].tabId # state.activeTabId
     THEN Apply(i, state, Ran(state, IdleProc, IdleProc))
     ELSE Apply(i, state, TabChangeBegin(state, [procs[i] EXCEPT !.pc = "t_start"]))
  /\ run' = IF mode = "runs" THEN RunChange(run, now) ELSE run
  /\ UNCHANGED <<row, retry>>
  /\ UNCHANGED <<daily, env>>

\* chrome.tabs.query of onFocusChanged or of initializeActiveTab settles
FocusQuerySettled(i, ok) ==
  /\ procs[i].pc = "f_query"
  /\ IF ok
     THEN Apply(i, state, TabChangeBegin(state, [procs[i] EXCEPT !.pc = "t_start",
                                                                !.tabId = browserTab]))
     ELSE Apply(i, state, Ran(state, IdleProc, IdleProc))
  /\ run' = IF mode = "runs" THEN RunChange(run, now) ELSE run
  /\ UNCHANGED <<row, retry>>
  /\ UNCHANGED <<daily, env>>

\* chrome.tabs.get of handleTabChange settles
TabGetSettled(i, ok) ==
  /\ procs[i].pc = "t_get"
  /\ Apply(i, state, Ran(TabChangeAfterGet(state, procs[i], ok), IdleProc, IdleProc))
  /\ UNCHANGED <<run, row, retry>>
  /\ UNCHANGED <<daily, env>>

\* the onMessage listener runs for an ACTIVITY_DETECTED message
ActivityStart(i) ==
  /\ procs[i].pc = "a_start"
  /\ Apply(i, state, ActBegin(state, procs[i]))
  /\ run' = IF mode = "runs" /\ state.activeTabId = procs[i].tabId
            THEN RunSignal(run, procs[i].domain, now,
                           daily[Today][procs[i].domain]
                             + state.pendingTime[procs[i].domain])
            ELSE run
  /\ UNCHANGED <<row, retry>>
  /\ UNCHANGED <<daily, env>>

\* chrome.tabs.query of handleActivityDetected settles
ActivityQuerySettled(i, ok) ==
  /\ procs[i].pc = "a_query"
  /\ Apply(i, state, ActAfterQuery(state, procs[i], ok))
  /\ run' = IF mode = "runs" /\ ok /\ browserTab = procs[i].tabId
            THEN RunSignal(run, procs[i].domain, now,
                           daily[Today][procs[i].domain]
                             + state.pendingTime[procs[i].domain])
            ELSE run
  /\ UNCHANGED <<row, retry>>
  /\ UNCHANGED <<daily, env>>

\* getDomainStatus, which only reads, settles and the response is sent
StatusSettled(i) ==
  /\ procs[i].pc = "a_status"
  /\ Apply(i, state, Ran(state, IdleProc, IdleProc))
  /\ UNCHANGED <<run, row, retry>>
  /\ UNCHANGED <<daily, env>>

\* getDailyData of persistPendingTime settles.  Resolved (ok): the pending
\* amounts are merged into the record read and saveDailyData is sent, which
\* the store applies (wok) or will reject.  Rejected: persistPendingTime
\* throws, and so does every handler awaiting it.
GetSettled(i, ok, wok) ==
  /\ procs[i].pc = "p_get"
  /\ IF ok
     THEN /\ Apply(i, state, Ran(state, [procs[i] EXCEPT !.pc = "p_set", !.ok = wok,
                                                          !.data = ZeroMap], IdleProc))
          /\ daily' = IF wok
                      THEN [daily EXCEPT ![procs[i].key] =
                                MergePending(procs[i].data, state.pendingTime)]
                      ELSE daily
     ELSE /\ wok
          /\ Apply(i, state, Ran(PersistRejected(state), IdleProc, IdleProc))
          /\ daily' = daily
  /\ retry' = IF mode = "serial" /\ ~(ok /\ wok) THEN "rejected" ELSE retry
  /\ row' = IF ok /\ wok THEN row ELSE NoRow
  /\ UNCHANGED run
  /\ UNCHANGED env

\* saveDailyData of persistPendingTime settles.  Resolved: the pending buffer
\* is cleared and the awaiting handler goes on.  Rejected: as for getDailyData.
SetSettled(i) ==
  /\ procs[i].pc = "p_set"
  /\ IF procs[i].ok
     THEN Apply(i, ClearPending(state), AfterPersist(ClearPending(state), procs[i]))
     ELSE Apply(i, state, Ran(PersistRejected(state), IdleProc, IdleProc))
  /\ retry' = IF procs[i].ok /\ retry = "rejected" THEN "retried" ELSE retry
  /\ row' = IF procs[i].ok /\ procs[i].kind = "flush" /\ row # NoRow
            THEN [row EXCEPT !.done = TRUE]
            ELSE row
  /\ UNCHANGED run
  /\ UNCHANGED <<daily, env>>

Next ==
  \/ Tick
  \/ \E t \in Tabs : TabActivated(t)
  \/ \E t \in Tabs : \E u \in TabPages(t) : TabUpdated(t, u)
  \/ ActivitySignal
  \/ WindowFocusLost
  \/ WindowFocusGained
  \/ PersistAlarm
  \/ InactivityAlarm
  \/ \E i \in Procs : TabChangeStart(i)
  \/ \E i \in Procs, ok \in BOOLEAN : FocusQuerySettled(i, ok)
  \/ \E i \in Procs, ok \in BOOLEAN : TabGetSettled(i, ok)
  \/ \E i \in Procs : ActivityStart(i)
  \/ \E i \in Procs, ok \in BOOLEAN : ActivityQuerySettled(i, ok)
  \/ \E i \in Procs : StatusSettled(i)
  \/ \E i \in Procs, ok \in BOOLEAN, wok \in BOOLEAN : GetSettled(i, ok, wok)
  \/ \E i \in Procs : SetSettled(i)

\* handlers overlap at their awaits
Spec == Init /\ [][Next]_vars

\* each event is handled to its end before the next is taken
SpecSerial == InitSerial /\ [][Next]_vars

\* as SpecSerial, recording the runs of activity signals
SpecRuns == InitRuns /\ [][Next]_vars

\* as SpecSerial, recording the flush ticks taken in a row
SpecRows == InitRows /\ [][Next]_vars

\* as SpecSerial, with the clock passing midnight
InitDays == InitCommon /\ mode = "days"

\* the step of the clock that passes midnight
Midnight ==
  /\ now < MaxTime
  /\ today < Today + MaxDays
  /\ now' = now + TimeStep
  /\ today' = today + 1
  /\ UNCHANGED <<state, daily, procs, browserTab, tabUrl, added, events, mode, agg, blurred, lost,
                 run, row, retry, hist, limits, other, reply>>

NextDays == Next \/ Midnight

SpecDays == InitDays /\ [][NextDays]_vars

\* each event handled to its end before the next, the window's focus recorded
InitFocus == InitCommon /\ mode = "focus"

SpecFocus == InitFocus /\ [][Next]_vars

\* each event handled to its end before the next, with a pause of the user
\* that is as long as the flush interval of handleActivityDetected
InitPace == InitCommon /\ mode = "pace"

Leap ==
  /\ now <= MaxTime
  /\ now' = now + PERSIST_EVERY_MS
  /\ UNCHANGED <<state, daily, procs, browserTab, tabUrl, added, events, mode, agg, blurred, lost,
                 run, row, retry, rest>>

NextPace == Next \/ Leap

SpecPace == InitPace /\ [][NextPace]_vars

\* ------------------------------------------------------------ termination
\* the state object with the pending buffer kept across a restart
RestartState_KeepsBuffer(st) == [InitState EXCEPT !.pendingTime = st.pendingTime]

\* the module is loaded again: the state object is the literal of lines 24-31,
\* whatever it was (st)
RestartState(st) == InitState

\* each event handled to its end before the next, the process terminated and
\* restarted at any point
InitRestart == InitCommon /\ mode = "restart"

\* The browser terminates the service worker and loads it again: the handlers
\* in flight are gone, the requests they had sent to the store have been
\* served, and initializeActiveTab has sent its chrome.tabs.query.
Terminate ==
  /\ state' = RestartState(state)
  /\ procs' = InitProcs
  /\ lost' = [d \in Domains |-> added[d] - daily[Today][d]]
  /\ UNCHANGED <<daily, now, browserTab, tabUrl, added, events, run, row, retry,
                 mode, agg, blurred, rest>>

NextRestart == Next \/ Terminate

SpecRestart == InitRestart /\ [][NextRestart]_vars

\* ------------------------------------------------------------ the flush tick, fairly
\* The persist alarm as a periodic timer: it fires again and again, whatever
\* else has happened, so it is not one of the counted events.
FlushTick ==
  LET st1 == RollForward(state, now)
      p == IF PendingEmpty(st1) THEN IdleProc
           ELSE IssueGet([IdleProc EXCEPT !.kind = "flush", !.ctx = "top"])
  IN  /\ CanSpawn(procs, p)
      /\ state' = st1
      /\ procs' = Spawn(procs, p)
      /\ added' = AddedBy(state, st1)
      /\ UNCHANGED <<daily, env, events, run, row, retry, rest>>

InitLive == InitCommon /\ mode = "live"

\* a handler that is suspended goes on
Resume(i) ==
  \/ \E ok \in BOOLEAN : FocusQuerySettled(i, ok)
  \/ \E ok \in BOOLEAN : TabGetSettled(i, ok)
  \/ ActivityStart(i)
  \/ \E ok \in BOOLEAN : ActivityQuerySettled(i, ok)
  \/ StatusSettled(i)
  \/ \E ok \in BOOLEAN, wok \in BOOLEAN : GetSettled(i, ok, wok)
  \/ SetSettled(i)

NextLive ==
  \/ Tick
  \/ ActivitySignal
  \/ WindowFocusLost
  \/ FlushTick
  \/ \E i \in Procs : Resume(i)

\* the process is never terminated (a suspended handler goes on), the flush
\* tick keeps firing, and the store accepts a flush's read and write again and
\* again
Fairness ==
  /\ SF_vars(FlushTick)
  /\ \A i \in Procs : WF_vars(Resume(i))
  /\ \A i \in Procs : SF_vars(GetSettled(i, TRUE, TRUE))

SpecLive == InitLive /\ [][NextLive]_vars /\ Fairness

\* ------------------------------------------------------------ the store's requests
\* The requests of the popup and of the dashboard, and the cleanup alarm,
\* each handled to its end before the next is taken.
tracker ==
  <<state, procs, now, browserTab, tabUrl, added, events, run, row, retry, mode, agg, blurred, lost>>

\* the limit values and the periods a SET_LIMIT message carries ("" when it
\* carries no period, which handleMessage takes for 'day')
LimitInputs == {0, 60000, 70000}

PeriodInputs == {"", "week", "month", "year"}

\* the hour of the day at which the cleanup alarm fires, and the hours from
\* local midnight to midnight UTC
CleanupHours == {0, 12, 20}

UtcOffsets == {-8, 0, 8}

\* the states the requests find the tracker in: no session, or a session of
\* a.com in progress with time pending
TrackingA ==
  [InitState EXCEPT !.activeTabId = 1, !.activeDomain = "a.com",
                    !.isTracking = TRUE,
                    !.sessionStartTime = 2 * TimeStep,
                    !.lastActivityTime = 2 * TimeStep,
                    !.lastPersistTime = TimeStep,
                    !.pendingTime = [ZeroMap EXCEPT !["a.com"] = TimeStep]]

InitStore ==
  /\ mode = "store"
  /\ \E tracking \in BOOLEAN :
       /\ state = IF tracking THEN TrackingA ELSE InitState
       /\ now = IF tracking THEN 4 * TimeStep ELSE TimeStep
       /\ added = IF tracking THEN TrackingA.pendingTime ELSE ZeroMap
  /\ \E recorded \in {0, 70000} :
       daily = [k \in DayKeys |->
                  IF k = Today THEN [ZeroMap EXCEPT !["a.com"] = recorded] ELSE ZeroMap]
  /\ \E gone \in SUBSET HistDays :
       /\ Cardinality(gone) <= 1
       /\ hist = [k \in HistDays |-> IF k \in gone THEN NoRecord ELSE HistRecord(k)]
  /\ \E legacy \in BOOLEAN :
       limits = IF legacy
                THEN [d \in Domains |-> IF d = "a.com" THEN LegacyLimit(60000)
                                        ELSE LegacyLimit(70000)]
                ELSE NoLimits
  /\ procs = [i \in Procs |-> IdleProc]
  /\ browserTab = 1
  /\ tabUrl = [t \in Tabs |-> IF t = 1 THEN UrlA ELSE UrlB]
  /\ events = 0
  /\ run = NoRun
  /\ row = NoRow
  /\ retry = "none"
  /\ today = Today
  /\ other = OtherKeys
  /\ reply = NoReply
  /\ agg = NoAgg
  /\ blurred = FALSE
  /\ lost = ZeroMap

\* handleMessage, SET_LIMIT
SetLimitRequest(domain, limit, period) ==
  /\ limits' = setLimit(limits, domain, limit, IF period = "" THEN "day" ELSE period)
  /\ reply' = [NoReply EXCEPT !.type = "setLimit", !.success = TRUE]
  /\ UNCHANGED <<tracker, daily, today, hist, other>>

\* handleMessage, REMOVE_LIMIT
RemoveLimitRequest(domain) ==
  /\ limits' = removeLimit(limits, domain)
  /\ reply' = [NoReply EXCEPT !.type = "removeLimit", !.success = TRUE]
  /\ UNCHANGED <<tracker, daily, today, hist, other>>

\* handleMessage, GET_LIMITS
GetLimitsRequest ==
  /\ reply' = [NoReply EXCEPT !.type = "limits", !.limits = getLimits(limits)]
  /\ UNCHANGED <<tracker, daily, today, hist, limits, other>>

\* handleMessage, GET_DOMAIN_STATUS
DomainStatusRequest(domain) ==
  /\ reply' = getDomainStatus(state, domain, now)
  /\ UNCHANGED <<tracker, daily, today, hist, limits, other>>

\* the cleanup-data alarm: cleanupOldData removes the daily keys its filter
\* selects, and no other key
CleanupAlarm(hour, utcOffset) ==
  /\ hist' = [k \in HistDays |->
                IF hist[k].present /\ Expired(k, today, hour, utcOffset)
                THEN NoRecord ELSE hist[k]]
  /\ daily' = [k \in DayKeys |->
                 IF Expired(k, today, hour, utcOffset) THEN ZeroMap ELSE daily[k]]
  /\ UNCHANGED <<tracker, today, limits, other, reply>>

NextStore ==
  \/ \E d \in Domains, n \in LimitInputs, p \in PeriodInputs : SetLimitRequest(d, n, p)
  \/ \E d \in Domains : RemoveLimitRequest(d)
  \/ GetLimitsRequest
  \/ \E d \in Domains : DomainStatusRequest(d)
  \/ \E h \in CleanupHours, o \in UtcOffsets : CleanupAlarm(h, o)

\* the store's requests, the tracker standing still
SpecStore == InitStore /\ [][NextStore]_vars

\* ------------------------------------------------------------ requests and a flush
\* GET_TODAY_STATS and GET_DOMAIN_STATUS, step by step, with the flush of the
\* persist alarm running between their steps.  chrome.storage.local serves
\* its requests in the order they were made and answers in that order: a
\* read returns what was stored when it was made, and is answered after
\* every request made before it.
\*   behind: where the flush was when the handler made its storage request
\*           (idle when there was none)
\*   total, range: todayTime, and the time getTimeRange returned
InFlush(p) == p.pc \in {"p_get", "p_set"}

IsRequest(p) == p.kind \in {"stats", "status"}

FlushPc ==
  IF \E j \in Procs : InFlush(procs[j])
  THEN procs[CHOOSE j \in Procs : InFlush(procs[j])].pc
  ELSE "idle"

\* the storage request of the handler in slot i is the oldest one outstanding
Oldest(i) ==
  IF IsRequest(procs[i])
  THEN FlushPc = "idle" \/ procs[i].behind # FlushPc
  ELSE \A j \in Procs : IsRequest(procs[j]) => procs[j].behind = procs[i].pc

\* a session of a.com in progress with time pending, as TrackingA; today's
\* record with or without a.com; a.com with no limit, or one for the day or
\* for the week
InitStats ==
  /\ mode = "stats"
  /\ state = TrackingA
  /\ now = 2 * TimeStep
  /\ added = TrackingA.pendingTime
  /\ \E recorded \in {0, 70000} :
       daily = [k \in DayKeys |->
                  IF k = Today THEN [ZeroMap EXCEPT !["a.com"] = recorded] ELSE ZeroMap]
  /\ hist = [k \in HistDays |-> HistRecord(k)]
  /\ \E period \in {"none", "day", "week"} :
       limits = IF period = "none"
                THEN NoLimits
                ELSE [NoLimits EXCEPT !["a.com"] = LimitConfig(60000, period)]
  /\ procs = [i \in Procs |-> IdleProc]
  /\ browserTab = 1
  /\ tabUrl = [t \in Tabs |-> IF t = 1 THEN UrlA ELSE UrlB]
  /\ events = 0
  /\ run = NoRun
  /\ row = NoRow
  /\ retry = "none"
  /\ today = Today
  /\ other = OtherKeys
  /\ reply = NoReply
  /\ agg = NoAgg
  /\ blurred = FALSE
  /\ lost = ZeroMap

\* a request handler starts, or goes from one await to the next
Request(ps) ==
  /\ procs' = ps
  /\ UNCHANGED <<state, daily, now, browserTab, tabUrl, added, events, run, row,
                 retry, mode, agg, blurred, lost, today, hist, limits, other>>

\* handleMessage, GET_TODAY_STATS: getTodayStats to its await of getDailyData
StatsRequest ==
  /\ \A j \in Procs : ~IsRequest(procs[j])
  /\ FreeSlots(procs) # {}
  /\ Request(Spawn(procs, [IdleProc EXCEPT !.pc = "s_daily", !.kind = "stats",
                                           !.key = getTodayKey,
                                           !.data = getDailyData(getTodayKey),
                                           !.behind = FlushPc]))
  /\ UNCHANGED reply

\* getDailyData of getTodayStats settles: to the await of getLimits
StatsDailySettled(i) ==
  /\ procs[i].pc = "s_daily"
  /\ Oldest(i)
  /\ Request([procs EXCEPT ![i] = [@ EXCEPT !.pc = "s_limits", !.behind = FlushPc]])
  /\ UNCHANGED reply

\* getLimits of getTodayStats settles (no step here changes the limits): the
\* record that was read is combined with the pending buffer and the session
\* in progress as they are now, and the response is sent
StatsLimitsSettled(i) ==
  /\ procs[i].pc = "s_limits"
  /\ Oldest(i)
  /\ reply' = [NoReply EXCEPT
                 !.type = "stats",
                 !.data = [d \in Domains |->
                             TimeForPeriod(state, d, procs[i].data[d], now)],
                 !.limits = getLimits(limits)]
  /\ Request(Spawn([procs EXCEPT ![i] = IdleProc], IdleProc))

\* handleMessage, GET_DOMAIN_STATUS: getDomainStatus to its await of getLimits
StatusRequest(domain) ==
  /\ \A j \in Procs : ~IsRequest(procs[j])
  /\ FreeSlots(procs) # {}
  /\ Request(Spawn(procs, [IdleProc EXCEPT !.pc = "d_limits", !.kind = "status",
                                           !.domain = domain,
                                           !.behind = FlushPc]))
  /\ UNCHANGED reply

\* getLimits of getDomainStatus settles: to the await of getDailyData
StatusLimitsSettled(i) ==
  /\ procs[i].pc = "d_limits"
  /\ Oldest(i)
  /\ Request([procs EXCEPT ![i] = [@ EXCEPT !.pc = "d_daily",
                                            !.key = getTodayKey,
                                            !.data = getDailyData(getTodayKey),
                                            !.behind = FlushPc]])
  /\ UNCHANGED reply

\* todayTime of getDomainStatus, its getDailyData settled
StatusTotal(p) == TimeForPeriod(state, p.domain, p.data[p.domain], now)

\* getDailyData of getDomainStatus settles: todayTime is computed; with no
\* limit the response is sent, with one getTimeForPeriod awaits getTimeRange
StatusDailySettled(i) ==
  LET p == procs[i]
      limitConfig == getLimits(limits)[p.domain]
  IN  /\ p.pc = "d_daily"
      /\ Oldest(i)
      /\ IF limitConfig = NoLimit
         THEN /\ reply' = DomainStatus(p.domain, limitConfig, StatusTotal(p), 0)
              /\ Request(Spawn([procs EXCEPT ![i] = IdleProc], IdleProc))
         ELSE /\ Request([procs EXCEPT ![i] =
                            [@ EXCEPT !.pc = "d_range",
                                      !.total = StatusTotal(p),
                                      !.range = RangeTotal(p.domain,
                                                           PeriodStart(limitConfig.period, today),
                                                           today),
                                      !.behind = FlushPc]])
              /\ UNCHANGED reply

\* getTimeRange of getTimeForPeriod settles: the response is sent
StatusRangeSettled(i) ==
  LET p == procs[i]
  IN  /\ p.pc = "d_range"
      /\ Oldest(i)
      /\ reply' = DomainStatus(p.domain, getLimits(limits)[p.domain], p.total,
                               TimeForPeriod(state, p.domain, p.range, now))
      /\ Request(Spawn([procs EXCEPT ![i] = IdleProc], IdleProc))

\* the flush's getDailyData and saveDailyData settle, in their turn
FlushGetSettled(i) == Oldest(i) /\ GetSettled(i, TRUE, TRUE)

FlushSetSettled(i) == Oldest(i) /\ SetSettled(i)

NextStats ==
  \/ Tick
  \/ PersistAlarm
  \/ \E i \in Procs : FlushGetSettled(i)
  \/ \E i \in Procs : FlushSetSettled(i)
  \/ StatsRequest
  \/ \E i \in Procs : StatsDailySettled(i)
  \/ \E i \in Procs : StatsLimitsSettled(i)
  \/ \E d \in Domains : StatusRequest(d)
  \/ \E i \in Procs : StatusLimitsSettled(i)
  \/ \E i \in Procs : StatusDailySettled(i)
  \/ \E i \in Procs : StatusRangeSettled(i)

\* the requests of the popup while the persist alarm flushes
SpecStats == InitStats /\ [][NextStats]_vars

\* as SpecStats, with the clock passing midnight
NextStatsDays == NextStats \/ Midnight

SpecStatsDays == InitStats /\ [][NextStatsDays]_vars

\* ------------------------------------------------------------ GET_STATS
\* getStats step by step, the tracker standing still while the clock goes on,
\* over midnight too.  The records of the earlier days are read one await
\* after the other; no step here changes a record, so they are read in one
\* step.
\*   range: message.days (0 when it is missing or zero); key, data and now:
\*   date and data of getTodayStats and when it combined them; total: the
\*   day of endDate
StatsDayInputs == {0, 1, 2, 7, 30}

\* line 149: message.days || 30
StatsDays(days) == IF days = 0 THEN 30 ELSE days

\* lines 490-502: the days the loop of getStats visits.  startDate is made
\* after endDate and is days - 1 days earlier at the same time of day or
\* later, so `current < endDate` holds up to the day before endDate's.
StatsLoopDays(days, endDay) == (endDay - days + 1)..(endDay - 1)

\* lines 487-502: the keys of dailyData, date being todayStats.date
StatsKeys(date, days, endDay) == {date} \cup StatsLoopDays(days, endDay)

InitHistory ==
  /\ mode = "history"
  /\ \E tracking \in BOOLEAN :
       /\ state = IF tracking THEN TrackingA ELSE InitState
       /\ added = IF tracking THEN TrackingA.pendingTime ELSE ZeroMap
  /\ now = 2 * TimeStep
  /\ \E recorded \in {0, 70000} :
       daily = [k \in DayKeys |->
                  IF k = Today THEN [ZeroMap EXCEPT !["a.com"] = recorded] ELSE ZeroMap]
  /\ \E gone \in SUBSET HistDays :
       /\ Cardinality(gone) <= 1
       /\ hist = [k \in HistDays |-> IF k \in gone THEN NoRecord ELSE HistRecord(k)]
  /\ limits = [NoLimits EXCEPT !["a.com"] = LimitConfig(60000, "week")]
  /\ procs = [i \in Procs |-> IdleProc]
  /\ browserTab = 1
  /\ tabUrl = [t \in Tabs |-> IF t = 1 THEN UrlA ELSE UrlB]
  /\ events = 0
  /\ run = NoRun
  /\ row = NoRow
  /\ retry = "none"
  /\ today = Today
  /\ other = OtherKeys
  /\ reply = NoReply
  /\ agg = NoAgg
  /\ blurred = FALSE
  /\ lost = ZeroMap

\* handleMessage, GET_STATS: getStats, getTodayStats to its await of
\* getDailyData
GetStatsRequest(days) ==
  /\ AllIdle
  /\ Request(Spawn(procs, [IdleProc EXCEPT !.pc = "g_daily", !.kind = "history",
                                           !.range = days,
                                           !.key = getTodayKey,
                                           !.data = getDailyData(getTodayKey)]))
  /\ UNCHANGED reply

\* getDailyData of getTodayStats settles: to the await of getLimits
GetStatsDailySettled(i) ==
  /\ procs[i].pc = "g_daily"
  /\ Request([procs EXCEPT ![i] = [@ EXCEPT !.pc = "g_limits"]])
  /\ UNCHANGED reply

\* getLimits of getTodayStats settles: the record read is combined with the
\* pending buffer and the session in progress, and getStats awaits getLimits
GetStatsTodaySettled(i) ==
  /\ procs[i].pc = "g_limits"
  /\ Request([procs EXCEPT ![i] =
                [@ EXCEPT !.pc = "g_table",
                          !.now = now,
                          !.data = [d \in Domains |->
                                      TimeForPeriod(state, d, procs[i].data[d], now)]]])
  /\ UNCHANGED reply

\* getLimits of getStats settles: endDate and startDate are made, and the
\* loop awaits the records of the days it visits
GetStatsLimitsSettled(i) ==
  /\ procs[i].pc = "g_table"
  /\ Request([procs EXCEPT ![i] = [@ EXCEPT !.pc = "g_range", !.total = today]])
  /\ UNCHANGED reply

\* the loop has ended: the response is sent
GetStatsAnswered(i) ==
  LET p == procs[i]
  IN  /\ p.pc = "g_range"
      /\ reply' = [NoReply EXCEPT
                     !.type = "history",
                     !.dailyData =
                        [k \in StatsKeys(p.key, StatsDays(p.range), p.total) |->
                           IF k = p.key THEN p.data ELSE getDailyData(k)],
                     !.limits = getLimits(limits)]
      /\ Request(Spawn([procs EXCEPT ![i] = IdleProc], IdleProc))

NextHistory ==
  \/ Tick
  \/ Midnight
  \/ \E days \in StatsDayInputs : GetStatsRequest(days)
  \/ \E i \in Procs : GetStatsDailySettled(i)
  \/ \E i \in Procs : GetStatsTodaySettled(i)
  \/ \E i \in Procs : GetStatsLimitsSettled(i)
  \/ \E i \in Procs : GetStatsAnswered(i)

\* the requests of the dashboard for the last days
SpecHistory == InitHistory /\ [][NextHistory]_vars

\* ------------------------------------------------------------ limit edits
\* SET_LIMIT and REMOVE_LIMIT step by step: setLimit and removeLimit await
\* getLimits, then await the write of the whole table.  A read returns the
\* table stored when it is made and a write is applied when it is made.
\*   table: the table the handler's getLimits read; entry: what it sets
\*   via: alone when no other edit was in flight with it before its write
EditLimits == {60000, 70000}

EditPeriods == {"", "week"}

InEdit(p) == p.pc \in {"l_get", "l_set"}

InitEdits ==
  /\ mode = "edits"
  /\ state = InitState
  /\ now = TimeStep
  /\ added = ZeroMap
  /\ daily = [k \in DayKeys |-> ZeroMap]
  /\ hist = [k \in HistDays |-> NoRecord]
  /\ \E legacy \in BOOLEAN :
       limits = IF legacy
                THEN [d \in Domains |-> IF d = "a.com" THEN LegacyLimit(60000)
                                        ELSE LegacyLimit(70000)]
                ELSE NoLimits
  /\ procs = [i \in Procs |-> IdleProc]
  /\ browserTab = 1
  /\ tabUrl = [t \in Tabs |-> IF t = 1 THEN UrlA ELSE UrlB]
  /\ events = 0
  /\ run = NoRun
  /\ row = NoRow
  /\ retry = "none"
  /\ today = Today
  /\ other = OtherKeys
  /\ reply = NoReply
  /\ agg = NoAgg
  /\ blurred = FALSE
  /\ lost = ZeroMap

\* a limit message is taken: its handler suspends at getLimits
EditStart(p) ==
  /\ events < MaxEvents
  /\ FreeSlots(procs) # {}
  /\ events' = events + 1
  /\ procs' = Spawn([j \in Procs |->
                       IF InEdit(procs[j]) /\ procs[j].pc = "l_get"
                       THEN [procs[j] EXCEPT !.via = "overlapped"]
                       ELSE procs[j]],
                    [p EXCEPT !.pc = "l_get", !.table = limits,
                              !.via = IF \E j \in Procs : InEdit(procs[j])
                                      THEN "overlapped" ELSE "alone"])
  /\ UNCHANGED <<state, daily, now, browserTab, tabUrl, added, run, row, retry,
                 mode, agg, blurred, lost, today, hist, limits, other>>

\* handleMessage, SET_LIMIT: setLimit to its await of getLimits
SetLimitStart(domain, limit, period) ==
  /\ EditStart([IdleProc EXCEPT !.kind = "set", !.domain = domain,
                                !.entry = LimitConfig(limit, IF period = "" THEN "day"
                                                            ELSE period)])
  /\ UNCHANGED reply

\* handleMessage, REMOVE_LIMIT: removeLimit to its await of getLimits
RemoveLimitStart(domain) ==
  /\ EditStart([IdleProc EXCEPT !.kind = "remove", !.domain = domain])
  /\ UNCHANGED reply

\* the table a handler writes, from the table it read
Edited(p) ==
  IF p.kind = "set" THEN setLimit(p.table, p.domain, p.entry.limit, p.entry.period)
  ELSE removeLimit(p.table, p.domain)

\* getLimits settles: the entry is set or deleted in the table that was read,
\* and the table is written
EditWrite(i) ==
  /\ procs[i].pc = "l_get"
  /\ limits' = Edited(procs[i])
  /\ procs' = [procs EXCEPT ![i] = [@ EXCEPT !.pc = "l_set"]]
  /\ UNCHANGED <<state, daily, now, browserTab, tabUrl, added, events, run, row,
                 retry, mode, agg, blurred, lost, today, hist, other, reply>>

\* the write settles: the response is sent
EditDone(i) ==
  /\ procs[i].pc = "l_set"
  /\ reply' = [NoReply EXCEPT !.type = IF procs[i].kind = "set" THEN "setLimit"
                                       ELSE "removeLimit",
                              !.success = TRUE]
  /\ procs' = Spawn([procs EXCEPT ![i] = IdleProc], IdleProc)
  /\ UNCHANGED <<state, daily, now, browserTab, tabUrl, added, events, run, row,
                 retry, mode, agg, blurred, lost, today, hist, limits, other>>

NextEdits ==
  \/ \E d \in Domains, n \in EditLimits, p \in EditPeriods : SetLimitStart(d, n, p)
  \/ \E d \in Domains : RemoveLimitStart(d)
  \/ \E i \in Procs : EditWrite(i)
  \/ \E i \in Procs : EditDone(i)

\* limit edits from the popup and the dashboard, overlapping at their awaits
SpecEdits == InitEdits /\ [][NextEdits]_vars

\* ------------------------------------------------------------ merging records
\* aggregateDomains applied to lists of up to MaxRecords daily records, in the
\* order given, in another order, and to the merges of the two parts of the
\* list.
RecordTimes == {0, TimeStep}

Records == UNION {[D -> RecordTimes] : D \in SUBSET Domains}

RECURSIVE Lists(_)
Lists(n) ==
  IF n = 0 THEN {<<>>}
  ELSE Lists(n - 1) \cup {Append(l, r) : l \in {x \in Lists(n - 1) : Len(x) = n - 1},
                                         r \in Records}

InitMerge ==
  /\ mode = "merge"
  /\ state = InitState
  /\ now = TimeStep
  /\ added = ZeroMap
  /\ daily = [k \in DayKeys |-> ZeroMap]
  /\ hist = [k \in HistDays |-> NoRecord]
  /\ limits = NoLimits
  /\ procs = [i \in Procs |-> IdleProc]
  /\ browserTab = 1
  /\ tabUrl = [t \in Tabs |-> IF t = 1 THEN UrlA ELSE UrlB]
  /\ events = 0
  /\ run = NoRun
  /\ row = NoRow
  /\ retry = "none"
  /\ today = Today
  /\ other = OtherKeys
  /\ reply = NoReply
  /\ \E l \in Lists(MaxRecords) :
       agg = [list |-> l, out |-> aggregateDomains(l), how |-> "given"]
  /\ blurred = FALSE
  /\ lost = ZeroMap

Merging(a) ==
  /\ agg' = a
  /\ UNCHANGED <<state, daily, procs, now, browserTab, tabUrl, added, events, run,
                 row, retry, mode, blurred, lost, today, hist, limits, other, reply>>

\* the list with its records i and i + 1 exchanged is aggregated
Reorder(i) ==
  /\ i \in 1..(Len(agg.list) - 1)
  /\ LET l == [agg.list EXCEPT ![i] = agg.list[i + 1], ![i + 1] = agg.list[i]]
     IN  Merging([list |-> l, out |-> aggregateDomains(l), how |-> "reordered"])

\* the first k records and the others are aggregated, and then the two results
Regroup(k) ==
  /\ k \in 0..Len(agg.list)
  /\ Merging([list |-> agg.list,
              out |-> aggregateDomains(
                        <<aggregateDomains(SubSeq(agg.list, 1, k)),
                          aggregateDomains(SubSeq(agg.list, k + 1, Len(agg.list)))>>),
              how |-> "regrouped"])

NextMerge ==
  \/ \E i \in 1..MaxRecords : Reorder(i)
  \/ \E k \in 0..MaxRecords : Regroup(k)

SpecMerge == InitMerge /\ [][NextMerge]_vars

\* ------------------------------------------------------------ claims
\* what a domain has been credited: today's record and the pending buffer
Credited(d) == daily[Today][d] + state.pendingTime[d]

\* the handler in slot i processes its activity signal as one of the active tab
SignalProcessed(i) ==
  \/ ActivityStart(i) /\ state.activeTabId = procs[i].tabId
  \/ ActivityQuerySettled(i, TRUE) /\ browserTab = procs[i].tabId

\* a step that begins finalizeCurrentSession for a tab change or a window blur
FinalizeStep ==
  \/ WindowFocusLost
  \/ \E i \in Procs :
       /\ TabChangeStart(i)
       /\ procs[i].pc = "t_start" \/ procs[i].tabId = state.activeTabId
  \/ \E i \in Procs : FocusQuerySettled(i, TRUE)

\* the store rejects the read or the write of the flush of slot i
RejectStep(i) ==
  \/ GetSettled(i, FALSE, TRUE)
  \/ GetSettled(i, TRUE, FALSE)
  \/ SetSettled(i) /\ ~procs[i].ok

\* no flush is between its write, applied, and the clearing of the buffer
NoWriteInFlight == \A i \in Procs : ~(procs[i].pc = "p_set" /\ procs[i].ok)

\* C1 (as claimed, for runs with no tab or window change): when a signal of
\* the run's domain is processed INACTIVITY_TIMEOUT_MS or more after the
\* run's last signal, the domain's credit (record and buffer) is at most its
\* credit before the run plus the run's length: nothing of the gap is in it.
C1_NoCreditForGap ==
  [][\A i \in Procs :
       ( /\ SignalProcessed(i)
         /\ run # NoRun
         /\ ~run.changed
         /\ procs[i].domain = run.dom
         /\ now - run.last >= INACTIVITY_TIMEOUT_MS )
       => daily'[Today][run.dom] + state'.pendingTime[run.dom] <= run.due + run.last]_vars

\* C2 (as claimed, for a run whose session a tab or window change ended at
\* the time of the run's last signal): once the session has ended and been
\* flushed, the domain's credit has grown by the run's length,
\* lastEventTime - firstEventTime.
C2_RunCreditIsItsLength ==
  ( /\ run # NoRun
    /\ run.changed
    /\ ~run.idle
    /\ AllIdle
    /\ ~state.isTracking
    /\ PendingEmpty(state) )
  => daily[Today][run.dom] = run.due + run.last

\* C3 (as claimed): a finalize while TRACKING raises the credit of
\* activeDomain by now - sessionStartTime when the last activity is less than
\* INACTIVITY_TIMEOUT_MS ago, and by lastActivityTime - sessionStartTime
\* otherwise, and raises no other domain's credit.
C3_FinalizeCreditsOnce ==
  [][( /\ FinalizeStep
       /\ state.isTracking
       /\ state.sessionStartTime # NULL
       /\ state.lastActivityTime # NULL
       /\ state.activeDomain # NullDomain )
     => \A d \in Domains :
          daily'[Today][d] + state'.pendingTime[d] =
            Credited(d) +
              ( IF d # state.activeDomain THEN 0
                ELSE IF now - state.lastActivityTime < INACTIVITY_TIMEOUT_MS
                     THEN now - state.sessionStartTime
                     ELSE state.lastActivityTime - state.sessionStartTime )]_vars

\* C4 (as claimed): in every reachable state, isTracking implies that
\* sessionStartTime and activeDomain are non-null.
C4_TrackingHasSessionAndDomain ==
  state.isTracking =>
    state.sessionStartTime # NULL /\ state.activeDomain # NullDomain

\* C5 (as claimed): a step that changes activeDomain or activeTabId while a
\* session is in progress credits the session's elapsed time (to now, or to
\* the last activity when that is INACTIVITY_TIMEOUT_MS or more ago) to the
\* old domain, and a session that goes on after the step starts afresh, so
\* that none of the old domain's time is left to be credited to the new one.
C5_ChangeDrainsSession ==
  [][( /\ \/ state'.activeDomain # state.activeDomain
          \/ state'.activeTabId # state.activeTabId
       /\ state.isTracking
       /\ state.sessionStartTime # NULL
       /\ state.lastActivityTime # NULL
       /\ state.activeDomain # NullDomain )
     => /\ state'.pendingTime[state.activeDomain] + daily'[Today][state.activeDomain]
             >= Credited(state.activeDomain) +
                  ( IF now - state.lastActivityTime < INACTIVITY_TIMEOUT_MS
                    THEN now - state.sessionStartTime
                    ELSE state.lastActivityTime - state.sessionStartTime )
        /\ state'.isTracking => state'.sessionStartTime >= now]_vars

\* C6 (as claimed): every amount ever added to the pending buffer is in the
\* pending buffer or in a daily record.
C6_NothingDropped ==
  \A d \in Domains : added[d] <= state.pendingTime[d] + daily[Today][d]

\* C7: a flush that the store rejects, at its read or at its write, leaves
\* the pending buffer and the records as they are; and, handlers not
\* overlapping, every amount added to the buffer is in the buffer or in
\* today's record exactly once, outside the moment a flush is between its
\* write and its clearing of the buffer: what a rejected flush left is added
\* once by the flush that succeeds.
C7_RejectedFlushKeepsBuffer ==
  /\ [][\A i \in Procs :
          RejectStep(i) => state'.pendingTime = state.pendingTime /\ daily' = daily]_vars
  /\ [](NoWriteInFlight => \A d \in Domains : added[d] = Credited(d))

\* C7, reached: a flush was rejected, a later one accepted, and what had been
\* pending is in today's record
C7_Retried ==
  /\ retry = "retried"
  /\ AllIdle
  /\ PendingEmpty(state)
  /\ \E d \in Domains : daily[Today][d] > 0 /\ added[d] = daily[Today][d]

\* C8 (as claimed): the second of two flush ticks in a row adds nothing to
\* the pending buffer and starts no write.
C8_SecondFlushIsNoOp ==
  [][(PersistAlarm /\ row.n >= 1 /\ row.done)
     => state'.pendingTime = state.pendingTime /\ procs' = procs]_vars

\* C8 (amended): after a flush tick the buffer is empty; the next flush tick
\* in a row is a no-op when no session is in progress, and otherwise credits
\* activeDomain with the time passed since the tick before it, which it then
\* writes: it is a no-op only when no time has passed.
C8_SecondFlushCreditsTimeSince ==
  /\ [](row.done => PendingEmpty(state) /\ AllIdle)
  /\ [][(PersistAlarm /\ row.n >= 1 /\ row.done)
        => IF FinalizeGuard(state)
           THEN /\ state'.pendingTime =
                     [ZeroMap EXCEPT ![state.activeDomain] = now - row.at]
                /\ (procs' = procs) <=> (now = row.at)
           ELSE state'.pendingTime = state.pendingTime /\ procs' = procs]_vars

\* C8, reached: a second flush tick in a row has credited a session in
\* progress and is writing
C8_SecondFlushWrites ==
  /\ row.n = 2
  /\ ~row.done
  /\ state.isTracking
  /\ state.pendingTime[state.activeDomain] = now - row.at
  /\ \E i \in Procs : procs[i].pc = "p_get" /\ procs[i].kind = "flush"

\* C9: the activity signal of a tab that is not the tracked one and that
\* chrome.tabs.query does not report active, or whose query fails, changes
\* no field of the state and nothing in the store.
C9_InactiveSignalChangesNothing ==
  [][\A i \in Procs, ok \in BOOLEAN :
       (ActivityQuerySettled(i, ok) /\ ~(ok /\ browserTab = procs[i].tabId))
       => state' = state /\ daily' = daily]_vars

\* C9, reached: such a signal has been answered with a status read only
C9_InactiveSignalAnswered ==
  \E i \in Procs :
    /\ procs[i].pc = "a_status"
    /\ procs[i].via = "inactive"
    /\ procs[i].tabId # browserTab

\* C10 (as claimed): when handleTabChange completes for a tab it could get,
\* isTracking is false, sessionStartTime and lastActivityTime are null and
\* activeDomain is the tab's domain, or null for a page of the skip list; and
\* isTracking turns true only in a step of the activity handler.
C10_TabChangeNeverTracks ==
  [][/\ \A i \in Procs :
          TabGetSettled(i, TRUE)
          => /\ ~state'.isTracking
             /\ state'.sessionStartTime = NULL
             /\ state'.lastActivityTime = NULL
             /\ state'.activeDomain =
                  IF tabUrl[procs[i].tabId].protocol \in SKIP_PROTOCOLS
                  THEN NullDomain
                  ELSE tabUrl[procs[i].tabId].hostname
     /\ (~state.isTracking /\ state'.isTracking)
          => \E i \in Procs : procs[i].kind = "act" /\ procs'[i] # procs[i]]_vars

\* what the record of the day that is age days before today holds for domain
HistTime(domain, age) ==
  IF hist[today - age].present THEN hist[today - age].data[domain] ELSE 0

\* a stored limit, as a reader of the table sees it
Upgraded(entry) ==
  IF entry.form = "number" THEN [form |-> "object", limit |-> entry.limit, period |-> "day"]
  ELSE entry

\* C11: the answer of GetDomainStatus has a limit exactly when the table has
\* one for the domain (limitExceeded false when it has none); with a limit,
\* limitExceeded is periodTime > limit, exceededBy is periodTime - limit when
\* exceeded and 0 otherwise, remainingTime is max(0, limit - periodTime); and a
\* daily limit of 60000 with 70000 recorded today and nothing else to count is
\* exceeded by 10000.
C11_StatusAgainstLimit ==
  reply.type = "status" =>
    /\ reply.hasLimit = (limits[reply.domain].form # "none")
    /\ ~reply.hasLimit => ~reply.limitExceeded
    /\ reply.hasLimit =>
         /\ reply.limit = limits[reply.domain].limit
         /\ reply.limitExceeded = (reply.periodTime > reply.limit)
         /\ reply.exceededBy =
              IF reply.periodTime > reply.limit THEN reply.periodTime - reply.limit ELSE 0
         /\ reply.remainingTime =
              IF reply.limit > reply.periodTime THEN reply.limit - reply.periodTime ELSE 0
    /\ ( /\ Upgraded(limits[reply.domain]).limit = 60000
         /\ Upgraded(limits[reply.domain]).period = "day"
         /\ daily[today][reply.domain] = 70000
         /\ ~state.isTracking
         /\ PendingEmpty(state) )
       => reply.limitExceeded /\ reply.exceededBy = 10000

\* C11, reached: the daily limit of 60000 is answered exceeded by 10000
C11_ExceededByTenSeconds ==
  /\ reply.type = "status"
  /\ reply.hasLimit
  /\ reply.limit = 60000
  /\ reply.periodTime = 70000
  /\ reply.limitExceeded
  /\ reply.exceededBy = 10000
  /\ reply.remainingTime = 0

\* C13: the periodTime answered for a limit per day, week or month is the
\* domain's records of today, of the 7 days ending today, of the 30 days
\* ending today, plus its pending time and the time of its session in
\* progress; the records of the days before count for nothing.
C13_PeriodIsRollingWindow ==
  (reply.type = "status" /\ reply.hasLimit /\ reply.period \in Periods) =>
    reply.periodTime =
      daily[today][reply.domain]
      + ( IF reply.period \in {"week", "month"}
          THEN HistTime(reply.domain, 1) + HistTime(reply.domain, 6) ELSE 0 )
      + ( IF reply.period = "month"
          THEN HistTime(reply.domain, 7) + HistTime(reply.domain, 29) ELSE 0 )
      + state.pendingTime[reply.domain]
      + ( IF state.isTracking /\ state.activeDomain = reply.domain
          THEN now - state.sessionStartTime ELSE 0 )

\* C13, reached: a week is answered for while a session is in progress, with
\* records both 6 and 7 days old in the store
C13_WeekWithSession ==
  /\ reply.type = "status"
  /\ reply.hasLimit
  /\ reply.period = "week"
  /\ reply.domain = "a.com"
  /\ state.isTracking
  /\ hist[today - 6].present
  /\ hist[today - 7].present

\* C14 (as claimed): a SetLimit request with a limit that is not positive or
\* a period that is not day, week or month is answered with an error and
\* leaves the limits table as it is; every stored {limit, period} has a
\* positive limit and a period that is day, week or month.
C14_BadLimitRejected ==
  [][/\ \A d \in Domains, n \in LimitInputs, p \in PeriodInputs :
          (SetLimitRequest(d, n, p) /\ (n <= 0 \/ p \notin (Periods \cup {""})))
          => limits' = limits /\ reply'.error
     /\ \A d \in Domains :
          limits'[d].form = "object"
          => limits'[d].limit > 0 /\ limits'[d].period \in Periods]_vars

\* C15: reading the limits table answers every bare number n as
\* {limit: n, period: 'day'} and every other entry as it is, and writes
\* nothing; the stored table changes only in SetLimit and RemoveLimit, which
\* write every entry in the structured form with the limit it had.
C15_LegacyLimitsUpgradedOnRead ==
  [][/\ (reply'.type = "limits" /\ reply' # reply)
          => /\ limits' = limits
             /\ \A d \in Domains : reply'.limits[d] = Upgraded(limits[d])
     /\ reply'.type = "status" => limits' = limits
     /\ limits' # limits
          => /\ reply'.type \in {"setLimit", "removeLimit"}
             /\ \A d \in Domains : limits'[d].form # "number"
             /\ \E d \in Domains :
                  \A e \in Domains \ {d} : limits'[e] = Upgraded(limits[e])]_vars

\* C15, reached: the table was read while it held bare numbers, and holds them
\* still
C15_LegacyRead ==
  /\ reply.type = "limits"
  /\ \E d \in Domains :
       /\ limits[d].form = "number"
       /\ reply.limits[d] = [form |-> "object", limit |-> limits[d].limit, period |-> "day"]

\* C16 (as claimed): a cleanup tick leaves the limits key, the keys that are
\* no daily records and every daily record dated within the
\* DATA_RETENTION_DAYS days before today present and unchanged.
C16_CleanupKeepsTheRest ==
  [][\A h \in CleanupHours, o \in UtcOffsets :
       CleanupAlarm(h, o)
       => /\ limits' = limits
          /\ other' = other
          /\ daily' = daily
          /\ \A k \in HistDays :
               today - k <= DATA_RETENTION_DAYS => hist'[k] = hist[k]]_vars

\* C17 (as claimed): a cleanup tick on day T removes the daily record of day
\* d exactly when d is more than DATA_RETENTION_DAYS days before T.
C17_CleanupRemovesOlderThanCutoff ==
  [][\A h \in CleanupHours, o \in UtcOffsets :
       CleanupAlarm(h, o)
       => \A k \in HistDays :
            hist[k].present
            => (~hist'[k].present <=> today - k > DATA_RETENTION_DAYS)]_vars

\* C18 (as claimed): no step lowers a value of a daily record, a flush
\* changes no record but the one of the current calendar day, and the record
\* of a day that has passed is not changed.
C18_PastRecordsImmutable ==
  [][/\ \A k \in DayKeys, d \in Domains : daily'[k][d] >= daily[k][d]
     /\ \A k \in DayKeys : k # today => daily'[k] = daily[k]]_vars

\* C19: no value of pendingTime is ever negative; and when the write of a
\* flush has succeeded the buffer is emptied: what it holds when the handler
\* next suspends or ends is what the handler has added since.
C19_PendingNonNegativeAndCleared ==
  [][/\ \A d \in Domains : state.pendingTime[d] >= 0 /\ state'.pendingTime[d] >= 0
     /\ \A i \in Procs :
          (procs[i].pc = "p_set" /\ procs[i].ok /\ SetSettled(i))
          => /\ \A d \in Domains : state'.pendingTime[d] = added'[d] - added[d]
             /\ procs[i].ctx = "top" \/ procs[i].kind \in {"tab", "blur"}
                  => PendingEmpty(state')]_vars

\* C19, reached: a flush has emptied the buffer of a session whose start,
\* rolled forward, is later than its last activity
C19_ClearedWithStartAfterLast ==
  /\ state.isTracking
  /\ state.sessionStartTime > state.lastActivityTime
  /\ state.lastActivityTime # NULL
  /\ PendingEmpty(state)
  /\ AllIdle
  /\ daily[Today][state.activeDomain] > 0

\* the first two events of a run were activity signals of one domain, 10000 ms
\* apart, and nothing has happened later than the second
TwoSignals ==
  /\ run # NoRun
  /\ ~run.changed
  /\ ~run.idle
  /\ run.due + run.last = 10000

\* C20: from the initial state, two activity signals of one domain on the
\* active tab, 10000 ms apart, and then a flush tick at the time of the
\* second: the flush puts exactly 10000 in the domain's pending buffer, and
\* its write adds exactly 10000 to the domain's entry of today's record.
C20_TwoSignalsThenFlush ==
  [][/\ (PersistAlarm /\ events = 2 /\ TwoSignals /\ now = run.last)
          => /\ state.pendingTime[run.dom] = 0
             /\ state'.pendingTime[run.dom] = 10000
     /\ \A i \in Procs :
          ( /\ procs[i].pc = "p_get"
            /\ procs[i].kind = "flush"
            /\ events = 3
            /\ TwoSignals
            /\ GetSettled(i, TRUE, TRUE) )
          => /\ daily[today][run.dom] = 0
             /\ daily'[today][run.dom] = 10000]_vars

\* C20, reached: that flush has ended
C20_FlushedTenSeconds ==
  /\ events = 3
  /\ TwoSignals
  /\ AllIdle
  /\ PendingEmpty(state)
  /\ daily[Today][run.dom] = 10000

\* what a domain has been credited today: today's record, the pending buffer
\* unless a flush has written it into the record and not yet cleared it, and
\* the session in progress when it is the domain's
CreditedToday(d) ==
  daily[today][d]
    + (IF \E j \in Procs : procs[j].pc = "p_set" /\ procs[j].ok
       THEN 0 ELSE state.pendingTime[d])
    + SessionTime(state, d, now)

\* C12: the value GetTodayStats answers for a domain, and the totalTime
\* GetDomainStatus computes, are what the domain has been credited today at
\* that moment, whatever a flush in flight has done in the meantime.
C12_AnswersAreCurrent ==
  [][\A i \in Procs :
       /\ StatsLimitsSettled(i)
            => \A d \in Domains : reply'.data[d] = CreditedToday(d)
       /\ StatusDailySettled(i)
            => StatusTotal(procs[i]) = CreditedToday(procs[i].domain)]_vars

\* C21: from the initial state, an activity signal of the active tab and,
\* with no other event between them, a second one of the same domain 20000 ms
\* later: the second ends the first session with nothing credited to any
\* domain, and leaves a session in progress that started, and last saw
\* activity, at the time of the second.
C21_LateSignalStartsAfresh ==
  [][\A i \in Procs :
       ( /\ SignalProcessed(i)
         /\ events = 2
         /\ run # NoRun
         /\ ~run.changed
         /\ ~run.idle
         /\ procs[i].domain = run.dom
         /\ run.due + run.last = 0
         /\ now - run.last = 20000 )
       => /\ \A d \in Domains : daily'[Today][d] + state'.pendingTime[d] = 0
          /\ state'.isTracking
          /\ state'.activeDomain = run.dom
          /\ state'.sessionStartTime = now
          /\ state'.lastActivityTime = now]_vars

\* C21, reached: the two signals, 20000 ms apart, were the only events
C21_SecondSessionRunning ==
  /\ events = 2
  /\ now = TimeStep + 20000
  /\ state.lastPersistTime = TimeStep
  /\ state.isTracking
  /\ state.sessionStartTime = now
  /\ state.lastActivityTime = now
  /\ run.dom = state.activeDomain
  /\ Credited(state.activeDomain) = 0

\* C22 (as claimed): with the flush tick firing fairly, the store accepting
\* again and again and no handler abandoned, the pending buffer is empty again
\* and again with every amount that was ever added to it in today's record.
C22_PendingBecomesDurable ==
  []<>(PendingEmpty(state) /\ \A d \in Domains : added[d] = daily[Today][d])

\* C23: the write of a SetLimit or RemoveLimit replaces the table by the one
\* its handler read with the named domain's entry set or deleted; when no
\* other edit was in flight with it, every other domain's limit is after the
\* write what it was before; when edits overlap, the table after a write
\* holds for every other domain what the writer had read, whatever was
\* written meanwhile.
C23_LimitEditsLastWriteWins ==
  [][\A i \in Procs :
       EditWrite(i)
       => LET p == procs[i]
          IN  /\ limits'[p.domain] = IF p.kind = "set" THEN p.entry ELSE NoLimit
              /\ \A d \in Domains \ {p.domain} : limits'[d] = Upgraded(p.table[d])
              /\ p.via = "alone"
                   => \A d \in Domains \ {p.domain} :
                        limits'[d] = Upgraded(limits[d])]_vars

\* C23, reached: two edits of different domains have overlapped, both have
\* written, and the table lacks the edit of the one that wrote first
C23_EditAbsent ==
  \E i \in Procs, j \in Procs :
    /\ procs[i].pc = "l_set"
    /\ procs[j].pc = "l_set"
    /\ procs[i].kind = "set"
    /\ procs[j].kind = "set"
    /\ procs[i].domain # procs[j].domain
    /\ limits = Edited(procs[j])
    /\ limits[procs[i].domain] # procs[i].entry

\* the sum of what the records of a list hold for a domain, over the set S
\* of their places
RECURSIVE SumAt(_, _, _)
SumAt(list, d, S) ==
  IF S = {} THEN 0
  ELSE LET i == CHOOSE j \in S : TRUE
       IN  (IF d \in DOMAIN list[i] THEN list[i][d] ELSE 0) + SumAt(list, d, S \ {i})

\* the mapping that holds, for every domain a record of the list has an entry
\* for, the sum of the records' entries
Totals(list) ==
  [d \in UNION {DOMAIN list[i] : i \in 1..Len(list)} |-> SumAt(list, d, 1..Len(list))]

\* C24: aggregateDomains returns for each domain the sum of its values over
\* the records, and {} for the empty list; the result is the same in another
\* order of the records and when the results for two parts of the list are
\* aggregated.
C24_AggregateIsOrderFree ==
  [][/\ agg.out = Totals(agg.list)
     /\ agg'.out = Totals(agg'.list)
     /\ agg'.out = agg.out
     /\ agg.list = <<>> => agg.out = EmptyMap]_vars

\* C24, reached: three records, not all alike, with entries of one domain,
\* aggregated in another order
C24_ReorderedSum ==
  /\ agg.how = "reordered"
  /\ Len(agg.list) = 3
  /\ agg.list[1] # agg.list[3]
  /\ "a.com" \in DOMAIN agg.out
  /\ agg.out["a.com"] = 2 * TimeStep
  /\ "b.com" \notin DOMAIN agg.list[1]

\* C25 (as claimed): once the handler of a window-focus-lost event has ended
\* with no session in progress, and until a window gains focus or a tab is
\* activated, no session starts and nothing is added to any domain's pending
\* time, whatever activity signals arrive.
C25_NoTrackingWhileBlurred ==
  [][( /\ blurred
       /\ blurred'
       /\ \A i \in Procs : procs[i].kind # "blur"
       /\ ~state.isTracking )
     => /\ ~state'.isTracking
        /\ added' = added]_vars

\* C26: the flush of the persist alarm, with a session in progress (tracking,
\* with a start time and a domain), adds now - sessionStartTime to the pending
\* time of activeDomain and sets sessionStartTime to now, and changes no other
\* field; with no session in progress (not tracking) it changes no field at
\* all when it begins; and when its read and its write settle, no field but
\* pendingTime changes.
C26_FlushKeepsSessionRunning ==
  [][/\ PersistAlarm
          => IF FinalizeGuard(state)
             THEN state' = [state EXCEPT
                              !.pendingTime[state.activeDomain] =
                                 @ + (now - state.sessionStartTime),
                              !.sessionStartTime = now]
             ELSE ~state.isTracking => state' = state
     /\ \A i \in Procs :
          ( /\ procs[i].kind = "flush"
            /\ \/ \E ok \in BOOLEAN, wok \in BOOLEAN : GetSettled(i, ok, wok)
               \/ SetSettled(i) )
          => [state' EXCEPT !.pendingTime = state.pendingTime] = state]_vars

\* C26, reached: a flush tick has credited a session in progress, which goes
\* on from the time of the tick, its last activity earlier
C26_SessionRolledForward ==
  /\ state.isTracking
  /\ state.lastActivityTime # NULL
  /\ state.sessionStartTime = now
  /\ state.lastActivityTime < now
  /\ state.pendingTime[state.activeDomain] = now - state.lastActivityTime
  /\ \E i \in Procs : procs[i].kind = "flush" /\ procs[i].pc = "p_get"

\* C27: when the read of a flush settles with no other handler in flight and
\* the store accepts the write, the entry of every domain in today's record
\* grows by the domain's pending amount (not at all when it has none) and no
\* other record changes; and a flush tick that leaves the buffer empty after
\* its roll-forward sends the store no read and no write.
C27_FlushAddsThePendingAmounts ==
  [][/\ \A i \in Procs :
          ( /\ procs[i].pc = "p_get"
            /\ \A j \in Procs \ {i} : procs[j].pc = "idle"
            /\ GetSettled(i, TRUE, TRUE) )
          => /\ \A d \in Domains :
                  daily'[today][d] = daily[today][d] + state.pendingTime[d]
             /\ \A k \in DayKeys \ {today} : daily'[k] = daily[k]
             /\ hist' = hist
     /\ (PersistAlarm /\ PendingEmpty(state'))
          => procs' = procs /\ daily' = daily /\ hist' = hist]_vars

\* C27, reached: flushes have added to the entries of two domains of today's
\* record, each holding what was pending for it
C27_TwoDomainsFlushed ==
  /\ mode = "serial"
  /\ AllIdle
  /\ PendingEmpty(state)
  /\ retry = "none"
  /\ \A d \in Domains : daily[Today][d] > 0 /\ daily[Today][d] = added[d]

\* C28: the inactivity sweep, when a session is in progress whose last
\* activity is INACTIVITY_TIMEOUT_MS or more ago, adds lastActivityTime -
\* sessionStartTime, when positive, to the pending time of activeDomain, sets
\* isTracking to false and sessionStartTime and lastActivityTime to null, and
\* leaves every other field as it is; otherwise it changes no field.  It
\* starts no handler and leaves the store as it is.
C28_SweepEndsIdleSession ==
  [][InactivityAlarm
     => /\ IF state.isTracking /\ now - state.lastActivityTime >= INACTIVITY_TIMEOUT_MS
           THEN state' =
                  [state EXCEPT
                     !.pendingTime =
                        [d \in Domains |->
                           @[d] + IF /\ d = state.activeDomain
                                     /\ state.lastActivityTime > state.sessionStartTime
                                  THEN state.lastActivityTime - state.sessionStartTime
                                  ELSE 0],
                     !.isTracking = FALSE,
                     !.sessionStartTime = NULL,
                     !.lastActivityTime = NULL]
           ELSE state' = state
        /\ procs' = procs
        /\ daily' = daily
        /\ hist' = hist
        /\ limits' = limits]_vars

\* C28, reached: two signals 5000 ms apart, and then a sweep that credited
\* the 5000 ms and ended the session
C28_SweepCredited ==
  /\ events = 3
  /\ AllIdle
  /\ ~state.isTracking
  /\ state.sessionStartTime = NULL
  /\ state.lastActivityTime = NULL
  /\ state.activeTabId # NULL
  /\ state.activeDomain # NullDomain
  /\ state.pendingTime[state.activeDomain] = TimeStep
  /\ added[state.activeDomain] = TimeStep
  /\ daily[Today][state.activeDomain] = 0
  /\ now = MaxTime

\* C29 (as claimed): flushes may overlap at their awaits; once every handler
\* has ended, today's record holds for each domain, together with what is
\* still pending, what it held at first (nothing) and every amount that was
\* added to the pending buffer, each once.
C29_OverlappingFlushesAddOnce ==
  AllIdle => \A d \in Domains : daily[Today][d] + state.pendingTime[d] = added[d]

\* C30 (as claimed): when the store rejects the flush that
\* finalizeCurrentSession awaits for a tab change or a window blur, the
\* handler goes on: no session is in progress after the step, the pending
\* buffer is as it was, and the handler of a tab change is at chrome.tabs.get,
\* from where it sets activeTabId and activeDomain.
C30_RejectedFinalizeCompletes ==
  [][\A i \in Procs :
       ( /\ procs[i].ctx = "fin"
         /\ procs[i].kind \in {"tab", "blur"}
         /\ GetSettled(i, FALSE, TRUE) \/ (SetSettled(i) /\ ~procs[i].ok) )
       => /\ ~state'.isTracking
          /\ state'.sessionStartTime = NULL
          /\ state'.lastActivityTime = NULL
          /\ state'.pendingTime = state.pendingTime
          /\ procs[i].kind = "tab"
               => \E j \in Procs : /\ procs'[j].pc = "t_get"
                                   /\ procs'[j].tabId = procs[i].tabId]_vars

\* the handler in slot i reaches line 255 of handleActivityDetected: its
\* signal is processed as one of the active tab
ReachesLine255(i) ==
  /\ procs[i].kind = "act"
  /\ procs[i].pc # "a_status"
  /\ procs' # procs
  /\ \E j \in Procs : /\ procs'[j].kind = "act"
                      /\ procs'[j].pc = "a_status"
                      /\ procs'[j].via = "active"

\* C31: when an activity signal has been processed as one of the active tab,
\* a flush was started by the activity handler at most PERSIST_EVERY_MS before
\* the time of the signal, and at that very time when none had been started
\* before; the handler has set isTracking and lastActivityTime and awaits the
\* domain's status while the flush it started, if it goes to the store, is
\* still awaiting the store's answer.
C31_FlushStartedAndNotAwaited ==
  [][\A i \in Procs :
       ReachesLine255(i)
       => /\ state'.isTracking
          /\ state'.lastActivityTime # NULL
          /\ state'.lastPersistTime # NULL
          /\ state'.lastActivityTime - state'.lastPersistTime \in 0..PERSIST_EVERY_MS
          /\ state.lastPersistTime = NULL
               => state'.lastPersistTime = state'.lastActivityTime
          /\ (state'.lastPersistTime # state.lastPersistTime /\ ~PendingEmpty(state'))
               => \E k \in Procs : procs'[k].kind = "bg" /\ procs'[k].pc = "p_get"]_vars

\* C31, reached: more than PERSIST_EVERY_MS after the first flush a processed
\* signal has started the next one, which awaits the store while the session
\* is already in progress
C31_SecondFlushInFlight ==
  /\ now > TimeStep + PERSIST_EVERY_MS
  /\ state.isTracking
  /\ state.lastActivityTime = now
  /\ state.lastPersistTime = now
  /\ \E j \in Procs : procs[j].pc = "a_status" /\ procs[j].via = "active"
  /\ \E k \in Procs : procs[k].kind = "bg" /\ procs[k].pc = "p_get"

\* C32 (as claimed): a termination leaves the records and the limits as they
\* are and the state as it is after loading, and what a domain has been
\* credited today falls by its pending amount and the time of its session in
\* progress.
C32_RestartLosesBufferAndSession ==
  [][Terminate
     => /\ daily' = daily /\ hist' = hist /\ limits' = limits
        /\ ~state'.isTracking
        /\ state'.sessionStartTime = NULL
        /\ state'.lastActivityTime = NULL
        /\ PendingEmpty(state')
        /\ \A d \in Domains :
             CreditedToday(d) - CreditedToday(d)'
               = state.pendingTime[d] + SessionTime(state, d, now)]_vars

\* C32 (amended): a termination leaves the records and the limits as they are
\* and the state as it is after loading; what a domain has been credited
\* today falls by the time of its session in progress and by what was added
\* to its pending amount and not written (all of the pending amount, except
\* between a flush's write and its clearing of the buffer, when it is none of
\* it); and, handlers not overlapping, today's record and the pending buffer
\* hold from then on exactly what was added and not lost, outside the moment
\* a flush is between its write and its clearing of the buffer.
C32_RestartLosesWhatWasNotWritten ==
  [][/\ Terminate
          => /\ daily' = daily /\ hist' = hist /\ limits' = limits
             /\ ~state'.isTracking
             /\ state'.sessionStartTime = NULL
             /\ state'.lastActivityTime = NULL
             /\ PendingEmpty(state')
             /\ \A d \in Domains :
                  /\ CreditedToday(d) - CreditedToday(d)'
                       = (added[d] - daily[Today][d] - lost[d]) + SessionTime(state, d, now)
                  /\ added[d] - daily[Today][d] - lost[d]
                       = IF NoWriteInFlight THEN state.pendingTime[d] ELSE 0
     /\ NoWriteInFlight'
          => \A d \in Domains :
               added'[d] = daily'[Today][d] + state'.pendingTime[d] + lost'[d]]_vars

\* C32, reached: a termination has dropped pending time of a.com, a session
\* of a.com has since begun and a flush has written time of a.com
C32_FlushedAfterRestart ==
  /\ lost["a.com"] > 0
  /\ daily[Today]["a.com"] > 0
  /\ added["a.com"] = daily[Today]["a.com"] + lost["a.com"]
  /\ PendingEmpty(state)
  /\ AllIdle
  /\ state.isTracking
  /\ state.lastPersistTime # NULL

\* C33 (as claimed): the answer to GetStats{days = N} (N = 30 when days is
\* missing or zero) has the N days ending today for keys; today's entry is
\* what getTodayStats made of today's record, the pending buffer and the
\* session in progress, and the entry of an earlier day is the record the
\* store holds for it, empty when it holds none.
C33_StatsCoverTheLastDays ==
  [][\A i \in Procs :
       GetStatsAnswered(i)
       => LET n == IF procs[i].range = 0 THEN 30 ELSE procs[i].range
              dailyData == reply'.dailyData
          IN  /\ DOMAIN dailyData = (today - n + 1)..today
              /\ \A d \in Domains :
                   dailyData[today][d]
                     = daily[today][d] + state.pendingTime[d]
                         + SessionTime(state, d, procs[i].now)
              /\ \A k \in (today - n + 1)..(today - 1) :
                   dailyData[k] = IF k \in HistDays /\ hist[k].present
                                  THEN hist[k].data
                                  ELSE IF k \in DayKeys THEN daily[k] ELSE ZeroMap]_vars

\* what the domains of S have been credited today, added up
RECURSIVE CreditedSum(_)
CreditedSum(S) ==
  IF S = {} THEN 0
  ELSE LET d == CHOOSE x \in S : TRUE
       IN  CreditedToday(d) + CreditedSum(S \ {d})

\* C34 (as claimed): what all the domains together have been credited
\* (records, pending buffer, and session in progress) is at most the time that
\* has passed since the first activity signal was processed, which is at most
\* the time since the clock of the run started, at TimeStep.
C34_CreditWithinWallClock ==
  CreditedSum(Domains) <= now - TimeStep

\* C35 (as claimed): while a session is in progress its start is not later
\* than its last activity, and its last activity is not later than now.
C35_SessionTimesOrdered ==
  state.isTracking
    => /\ state.sessionStartTime # NULL
       /\ state.lastActivityTime # NULL
       /\ state.sessionStartTime <= state.lastActivityTime
       /\ state.lastActivityTime <= now

\* C36 (as claimed): an answer of GetDomainStatus for a domain with a limit
\* has periodTime >= totalTime.
C36_PeriodCoversToday ==
  (reply.type = "status" /\ reply.hasLimit) => reply.periodTime >= reply.totalTime

====
